---- MODULE Spec2Model ----
(***************************************************************************)
(* A model of the streaming translation and retry engine of the LLM        *)
(* gateway service: the two provider adapters (GoogleNativeProvider and    *)
(* LangChainProvider), their generate() retry loop and their streaming     *)
(* adapters (_stream_with_timeout and _stream_response).                   *)
(*                                                                         *)
(* One behaviour of Spec is one call of generate() on one provider: the    *)
(* request and the provider are chosen in Init, the upstream's behaviour   *)
(* (which chunk arrives next, end of stream, deadline expiry, an SDK       *)
(* exception) is chosen step by step, and so is what the consumer does    *)
(* with a delta it holds: it asks for the next one, or it holds the delta  *)
(* until the deadline of the attempt expires, which cancels its task.      *)
(* Any other cancellation of the caller's task is not modelled.            *)
(*                                                                         *)
(* Conventions.  An optional value (Python's None or a value) is the empty *)
(* sequence None or the one-element sequence Some(v).  Text is a TLA+      *)
(* string, "" standing for every falsy text (None or empty).  A tool name  *)
(* is a sequence of one-character strings, so that the codec can be        *)
(* computed character by character.  The eight hexadecimal characters of a *)
(* generated call id (str(uuid.uuid4())[:8]) are the token GeneratedCallId.*)
(***************************************************************************)
EXTENDS Integers, Sequences, FiniteSets, TLC

\* ---------------------------------------------------------------- constants

MAX_RETRIES == 3

RETRY_BACKOFF_BASE == 2

\* The largest number of upstream chunks one attempt consumes in the model.
MaxChunks == 2

\* ------------------------------------------------------------------ helpers

None == <<>>

Some(v) == <<v>>

IsNone(o) == o = <<>>

Get(o) == o[1]

\* Python's `x or 0` on an optional count.
OrZero(o) == IF IsNone(o) THEN 0 ELSE Get(o)

RECURSIVE FoldLeft(_, _, _)
FoldLeft(Op(_, _), acc, s) ==
    IF s = <<>> THEN acc ELSE FoldLeft(Op, Op(acc, Head(s)), Tail(s))

RECURSIVE Pow(_, _)
Pow(b, e) == IF e = 0 THEN 1 ELSE b * Pow(b, e - 1)

GeneratedCallId == "uuid4[:8]"

\* ------------------------------------------------------------------- deltas
\* pb.GenerateResponse: the oneof field that is set (kind), its value (body)
\* and is_final.  The final marker sets no field of the oneof.

Delta(kind, body) == [kind |-> kind, body |-> body, is_final |-> FALSE]

TextDelta(content) == Delta("text", [content |-> content])

ThinkingDelta(content) == Delta("thinking", [content |-> content])

ToolCallDelta(call_id, name, arguments) ==
    Delta("tool_call", [call_id |-> call_id, name |-> name, arguments |-> arguments])

CodeExecutionDelta(code, result) ==
    Delta("code_execution", [code |-> code, result |-> result])

UsageInfo(input, output, total, thinking) ==
    Delta("usage", [input_tokens |-> input, output_tokens |-> output,
                    total_tokens |-> total, thinking_tokens |-> thinking])

\* GenerateResponse(error=<message, code, retryable>, is_final=True)
ErrorDelta(code, retryable) ==
    [kind |-> "error", body |-> [code |-> code, retryable |-> retryable], is_final |-> TRUE]

FinalChunk == [kind |-> "final", body |-> [none |-> TRUE], is_final |-> TRUE]

\* ------------------------------------------------------------ tool-name codec

RECURSIVE tool_name_from_api(_)
tool_name_from_api(name) ==
    IF name = <<>> THEN <<>>
    ELSE IF Len(name) >= 2 /\ name[1] = "_" /\ name[2] = "_"
         THEN <<".">> \o tool_name_from_api(SubSeq(name, 3, Len(name)))
         ELSE <<name[1]>> \o tool_name_from_api(Tail(name))

\* GoogleNativeProvider keeps its own copy of the decoder.
RECURSIVE tool_name_from_native(_)
tool_name_from_native(name) ==
    IF name = <<>> THEN <<>>
    ELSE IF Len(name) >= 2 /\ name[1] = "_" /\ name[2] = "_"
         THEN <<".">> \o tool_name_from_native(SubSeq(name, 3, Len(name)))
         ELSE <<name[1]>> \o tool_name_from_native(Tail(name))

\* name.split("."): the segments of a name.
RECURSIVE Split(_, _)
Split(name, cur) ==
    IF name = <<>> THEN <<cur>>
    ELSE IF Head(name) = "." THEN <<cur>> \o Split(Tail(name), <<>>)
    ELSE Split(Tail(name), Append(cur, Head(name)))

\* sub in text, for sequences of characters.
Contains(sub, text) ==
    \E i \in 1..(Len(text) - Len(sub) + 1) : SubSeq(text, i, i + Len(sub) - 1) = sub

\* name.replace(".", "__")
RECURSIVE ReplaceDots(_)
ReplaceDots(name) ==
    IF name = <<>> THEN <<>>
    ELSE IF Head(name) = "." THEN <<"_", "_">> \o ReplaceDots(Tail(name))
    ELSE <<Head(name)>> \o ReplaceDots(Tail(name))

\* A call that may raise ValueError: [raised, value] (value is the message's
\* request-controlled text when raised).
Ok(v) == [raised |-> FALSE, value |-> v]

Raise(type, text) == [raised |-> TRUE, value |-> [type |-> type, text |-> text]]

tool_name_to_api(name) ==
    LET segments == Split(name, <<>>)
    IN  IF \E i \in 1..Len(segments) : Contains(<<"_", "_">>, segments[i])
        THEN Raise("tool_name", name)
        ELSE Ok(ReplaceDots(name))

\* Mutant of tool_name_to_native: the segments are not validated.
tool_name_to_native_NoCheck(name) == Ok(ReplaceDots(name))

tool_name_to_native(name) ==
    LET segments == Split(name, <<>>)
    IN  IF \E i \in 1..Len(segments) : Contains(<<"_", "_">>, segments[i])
        THEN Raise("tool_name", name)
        ELSE Ok(ReplaceDots(name))

\* ------------------------------------------------------- request conversion
\* A message is [role, content, tool_calls (the names of the assistant's tool
\* calls), tool_name]; a tool definition is its name.

\* Encode every name of a list, raising at the first one that is rejected.
EncodeAll(Encode(_), names) ==
    LET step(acc, n) ==
            IF acc.raised THEN acc
            ELSE LET r == Encode(n)
                 IN  IF r.raised THEN r ELSE Ok(Append(acc.value, r.value))
    IN  FoldLeft(step, Ok(<<>>), names)

\* Mutant of GoogleMessageStep: a message of an unknown role is skipped.
GoogleMessageStep_SkipUnknown(acc, msg) ==
    IF acc.raised THEN acc
    ELSE LET next == [acc EXCEPT !.idx = @ + 1]
             fail(type) == [acc EXCEPT !.raised = TRUE,
                                       !.error = [type |-> type, text |-> <<>>, idx |-> acc.idx]]
         IN
         IF msg.role = "system"
         THEN IF ~IsNone(acc.system_instruction)
              THEN fail("duplicate_system")
              ELSE [next EXCEPT !.system_instruction = Some(msg.content)]
         ELSE IF msg.role = "user"
         THEN [next EXCEPT !.contents = Append(@, [role |-> "user", text |-> msg.content,
                                                   function_calls |-> <<>>,
                                                   function_response |-> None])]
         ELSE IF msg.role = "assistant"
         THEN LET names == EncodeAll(tool_name_to_native, msg.tool_calls)
              IN  IF names.raised THEN fail("tool_name")
                  ELSE [next EXCEPT !.contents = Append(@, [role |-> "model", text |-> msg.content,
                                                            function_calls |-> names.value,
                                                            function_response |-> None])]
         ELSE IF msg.role = "tool"
         THEN LET name == tool_name_to_native(msg.tool_name)
              IN  IF name.raised THEN fail("tool_name")
                  ELSE [next EXCEPT !.contents = Append(@, [role |-> "user", text |-> "",
                                                            function_calls |-> <<>>,
                                                            function_response |-> Some(name.value)])]
         ELSE next

\* GoogleNativeProvider._convert_messages: the loop body for the message at
\* index acc.idx.
GoogleMessageStep(acc, msg) ==
    IF acc.raised THEN acc
    ELSE LET next == [acc EXCEPT !.idx = @ + 1]
             fail(type) == [acc EXCEPT !.raised = TRUE,
                                       !.error = [type |-> type, text |-> <<>>, idx |-> acc.idx]]
         IN
         IF msg.role = "system"
         THEN IF ~IsNone(acc.system_instruction)
              THEN fail("duplicate_system")
              ELSE [next EXCEPT !.system_instruction = Some(msg.content)]
         ELSE IF msg.role = "user"
         THEN [next EXCEPT !.contents = Append(@, [role |-> "user", text |-> msg.content,
                                                   function_calls |-> <<>>,
                                                   function_response |-> None])]
         ELSE IF msg.role = "assistant"
         THEN LET names == EncodeAll(tool_name_to_native, msg.tool_calls)
              IN  IF names.raised THEN fail("tool_name")
                  ELSE [next EXCEPT !.contents = Append(@, [role |-> "model", text |-> msg.content,
                                                            function_calls |-> names.value,
                                                            function_response |-> None])]
         ELSE IF msg.role = "tool"
         THEN LET name == tool_name_to_native(msg.tool_name)
              IN  IF name.raised THEN fail("tool_name")
                  ELSE [next EXCEPT !.contents = Append(@, [role |-> "user", text |-> "",
                                                            function_calls |-> <<>>,
                                                            function_response |-> Some(name.value)])]
         ELSE fail("role")

google_convert_messages(messages) ==
    FoldLeft(GoogleMessageStep,
             [raised |-> FALSE, error |-> [type |-> "", text |-> <<>>, idx |-> 0], idx |-> 0,
              system_instruction |-> None, contents |-> <<>>],
             messages)

\* Mutant of google_convert_tools: the native tools added whether or not the
\* caller has tools.
google_convert_tools_NativeToo(tools, native_tools) ==
    LET has_mcp_tools == Len(tools) > 0
        declarations == EncodeAll(tool_name_to_native, tools)
        native(flag, kind) == IF flag THEN <<[kind |-> kind, names |-> <<>>]>> ELSE <<>>
    IN  IF has_mcp_tools /\ declarations.raised THEN declarations
        ELSE Ok((IF has_mcp_tools
                 THEN <<[kind |-> "function_declarations", names |-> declarations.value]>>
                 ELSE <<>>)
                \o native(native_tools.google_search, "google_search")
                \o native(native_tools.code_execution, "code_execution")
                \o native(native_tools.url_context, "url_context"))

\* GoogleNativeProvider._convert_tools: the genai Tool objects, in order.
google_convert_tools(tools, native_tools) ==
    LET has_mcp_tools == Len(tools) > 0
        declarations == EncodeAll(tool_name_to_native, tools)
        native(flag, kind) == IF ~has_mcp_tools /\ flag THEN <<[kind |-> kind, names |-> <<>>]>> ELSE <<>>
    IN  IF has_mcp_tools /\ declarations.raised THEN declarations
        ELSE Ok((IF has_mcp_tools
                 THEN <<[kind |-> "function_declarations", names |-> declarations.value]>>
                 ELSE <<>>)
                \o native(native_tools.google_search, "google_search")
                \o native(native_tools.code_execution, "code_execution")
                \o native(native_tools.url_context, "url_context"))

\* LangChainProvider._convert_messages: no check of a second system message.
LangChainMessageStep(acc, msg) ==
    IF acc.raised THEN acc
    ELSE LET next == [acc EXCEPT !.idx = @ + 1]
             fail(type) == [acc EXCEPT !.raised = TRUE,
                                       !.error = [type |-> type, text |-> <<>>, idx |-> acc.idx]]
             put(m) == [next EXCEPT !.contents = Append(@, m)]
         IN
         IF msg.role = "system"
         THEN put([type |-> "SystemMessage", content |-> msg.content, tool_calls |-> <<>>, name |-> <<>>])
         ELSE IF msg.role = "user"
         THEN put([type |-> "HumanMessage", content |-> msg.content, tool_calls |-> <<>>, name |-> <<>>])
         ELSE IF msg.role = "assistant"
         THEN LET names == EncodeAll(tool_name_to_api, msg.tool_calls)
              IN  IF names.raised THEN fail("tool_name")
                  ELSE put([type |-> "AIMessage", content |-> msg.content,
                            tool_calls |-> names.value, name |-> <<>>])
         ELSE IF msg.role = "tool"
         THEN LET name == IF msg.tool_name # <<>> THEN tool_name_to_api(msg.tool_name) ELSE Ok(<<>>)
              IN  IF name.raised THEN fail("tool_name")
                  ELSE put([type |-> "ToolMessage", content |-> msg.content,
                            tool_calls |-> <<>>, name |-> name.value])
         ELSE fail("role")

langchain_convert_messages(messages) ==
    FoldLeft(LangChainMessageStep,
             [raised |-> FALSE, error |-> [type |-> "", text |-> <<>>, idx |-> 0], idx |-> 0,
              contents |-> <<>>],
             messages)

\* ProviderType, as the characters of the enum's values.
OPENAI == <<"o", "p", "e", "n", "a", "i">>

ANTHROPIC == <<"a", "n", "t", "h", "r", "o", "p", "i", "c">>

XAI == <<"x", "a", "i">>

GOOGLE == <<"g", "o", "o", "g", "l", "e">>

VERTEXAI == <<"v", "e", "r", "t", "e", "x", "a", "i">>

ProviderType == {OPENAI, ANTHROPIC, XAI, GOOGLE, VERTEXAI}

\* Mutant of create_chat_model: no provider requires the API key.
create_chat_model_NoKeyCheck(config, key_set) ==
    IF config.provider \notin ProviderType
    THEN Raise("unsupported_provider", config.provider)
    ELSE Ok([provider |-> config.provider, model |-> config.model])

\* LangChainProvider._create_chat_model: the provider is validated first; every
\* provider but vertexai then requires the API key of the environment.
create_chat_model(config, key_set) ==
    IF config.provider \notin ProviderType
    THEN Raise("unsupported_provider", config.provider)
    ELSE IF config.provider # VERTEXAI /\ ~key_set
    THEN Raise("env_not_set", config.api_key_env)
    ELSE Ok([provider |-> config.provider, model |-> config.model])

\* LangChainProvider._bind_tools
bind_tools(tools) == EncodeAll(tool_name_to_api, tools)

\* "not set" in str(e), for the ValueError of _get_or_create_model: the message
\* of an unset variable says "is not set"; the other messages quote text of
\* the request.
NOT_SET == <<"n", "o", "t", " ", "s", "e", "t">>

NotSetInMessage(e) == e.type = "env_not_set" \/ Contains(NOT_SET, e.text)

\* ------------------------------------------------------------------- json
\* json.dumps(obj) with its defaults (ensure_ascii, separators ", " and ": ").
\* A JSON value is tagged with its Python type; a str is the sequence of its
\* code points, a dict the sequence of its <<key, value>> items in insertion
\* order (the keys are str), a float is given by its repr().

JStr(codes) == [type |-> "str", v |-> codes]

JInt(n) == [type |-> "int", v |-> n]

JFloat(repr) == [type |-> "float", v |-> repr]

JBool(b) == [type |-> "bool", v |-> b]

JNull == [type |-> "NoneType", v |-> <<>>]

JList(elements) == [type |-> "list", v |-> elements]

\* dict(items)
dict(items) == [type |-> "dict", v |-> items]

\* The printable ASCII characters by ascending code point, 32..95 and 97..126.
\* (A TLA+ string cannot hold the grave accent, 96: texts with it are outside
\* the model.)
AsciiBelowGrave == " !\"#$%&'()*+,-./0123456789:;<=>?@ABCDEFGHIJKLMNOPQRSTUVWXYZ[\\]^_"

AsciiAboveGrave == "abcdefghijklmnopqrstuvwxyz{|}~"

\* chr(n), 32 <= n <= 126, n # 96.
Chr(n) == IF n < 96 THEN SubSeq(AsciiBelowGrave, n - 31, n - 31)
          ELSE SubSeq(AsciiAboveGrave, n - 96, n - 96)

\* The code points of the printable ASCII characters.
Printable == (32..126) \ {96}

\* ord(c) of a printable ASCII character, as a table.
OrdTable == [c \in {Chr(n) : n \in Printable} |-> CHOOSE n \in Printable : Chr(n) = c]

\* ord(c) of a character that a TLA+ string holds: a printable ASCII one, or
\* one of the control characters that have an escape.
OrdOf(c) ==
    IF c = "\t" THEN 9 ELSE IF c = "\n" THEN 10 ELSE IF c = "\f" THEN 12
    ELSE IF c = "\r" THEN 13 ELSE OrdTable[c]

\* The code points of a text written as a TLA+ string.
RECURSIVE Codes(_)
Codes(s) == IF s = "" THEN <<>> ELSE <<OrdOf(Head(s))>> \o Codes(Tail(s))

HexDigit(d) == SubSeq("0123456789abcdef", d + 1, d + 1)

\* '{0:04x}'.format(n)
Hex4(n) == HexDigit(n \div 4096) \o HexDigit((n \div 256) % 16)
           \o HexDigit((n \div 16) % 16) \o HexDigit(n % 16)

\* json.encoder.py_encode_basestring_ascii, for one code point: ESCAPE_DCT,
\* the character itself when it is in ' '..'~', \uXXXX otherwise (a surrogate
\* pair above the basic plane).
EscapeAscii(n) ==
    IF n = 92 THEN "\\\\"
    ELSE IF n = 34 THEN "\\\""
    ELSE IF n = 8 THEN "\\b"
    ELSE IF n = 12 THEN "\\f"
    ELSE IF n = 10 THEN "\\n"
    ELSE IF n = 13 THEN "\\r"
    ELSE IF n = 9 THEN "\\t"
    ELSE IF n >= 32 /\ n <= 126 THEN Chr(n)
    ELSE IF n < 65536 THEN "\\u" \o Hex4(n)
    ELSE "\\u" \o Hex4(55296 + (((n - 65536) \div 1024) % 1024))
         \o "\\u" \o Hex4(56320 + ((n - 65536) % 1024))

\* '"' + the escaped characters + '"'
RECURSIVE EscapeAll(_)
EscapeAll(codes) ==
    IF codes = <<>> THEN "" ELSE EscapeAscii(Head(codes)) \o EscapeAll(Tail(codes))

JsonString(codes) == "\"" \o EscapeAll(codes) \o "\""

\* int.__repr__
RECURSIVE Decimal(_)
Decimal(n) ==
    IF n < 0 THEN "-" \o Decimal(0 - n)
    ELSE IF n < 10 THEN Chr(48 + n)
    ELSE Decimal(n \div 10) \o Chr(48 + (n % 10))

\* json.encoder's floatstr: float.__repr__, and the JavaScript names of the
\* values that have no JSON text.
FloatStr(repr) ==
    IF repr = "nan" THEN "NaN"
    ELSE IF repr = "inf" THEN "Infinity"
    ELSE IF repr = "-inf" THEN "-Infinity"
    ELSE repr

RECURSIVE json_dumps(_)
RECURSIVE JsonItems(_)
RECURSIVE JsonElements(_)

\* One item of a dict: "key": value
JsonItem(kv) == JsonString(kv[1]) \o ": " \o json_dumps(kv[2])

JsonItems(items) ==
    IF items = <<>> THEN ""
    ELSE IF Len(items) = 1 THEN JsonItem(items[1])
    ELSE JsonItem(items[1]) \o ", " \o JsonItems(Tail(items))

JsonElements(elements) ==
    IF elements = <<>> THEN ""
    ELSE IF Len(elements) = 1 THEN json_dumps(elements[1])
    ELSE json_dumps(elements[1]) \o ", " \o JsonElements(Tail(elements))

json_dumps(obj) ==
    CASE obj.type = "str" -> JsonString(obj.v)
      [] obj.type = "int" -> Decimal(obj.v)
      [] obj.type = "float" -> FloatStr(obj.v)
      [] obj.type = "bool" -> IF obj.v THEN "true" ELSE "false"
      [] obj.type = "NoneType" -> "null"
      [] obj.type = "list" -> "[" \o JsonElements(obj.v) \o "]"
      [] obj.type = "dict" -> "{" \o JsonItems(obj.v) \o "}"

\* ------------------------------------------- GoogleNativeProvider: streaming
\* A part of a candidate's content: thought (bool), text, function_call
\* (optional [name: optional tool name, args: dict]), executable_code
\* (optional [code]), code_execution_result (optional [output]).

\* The running state of _stream_with_timeout while it walks the parts of one
\* chunk: the deltas yielded so far, has_content, and whether an exception
\* has escaped (the remaining parts are then never reached).
PartStep(acc, part) ==
    IF acc.raised THEN acc
    ELSE IF part.thought
    THEN IF part.text # ""
         THEN [acc EXCEPT !.has_content = TRUE,
                          !.deltas = Append(@, ThinkingDelta(part.text))]
         ELSE acc
    ELSE IF ~IsNone(part.function_call)
    THEN LET fc == Get(part.function_call)
             args_str == IF fc.args # <<>> THEN json_dumps(dict(fc.args)) ELSE "{}"
         IN  IF IsNone(fc.name)
             \* None.replace(...) in _tool_name_from_native: AttributeError
             THEN [acc EXCEPT !.has_content = TRUE, !.raised = TRUE]
             ELSE [acc EXCEPT !.has_content = TRUE,
                              !.deltas = Append(@, ToolCallDelta(GeneratedCallId,
                                            tool_name_from_native(Get(fc.name)), args_str))]
    ELSE IF ~IsNone(part.executable_code)
    THEN [acc EXCEPT !.has_content = TRUE,
                     !.deltas = Append(@, CodeExecutionDelta(Get(part.executable_code).code, ""))]
    ELSE IF ~IsNone(part.code_execution_result)
    THEN [acc EXCEPT !.has_content = TRUE,
                     !.deltas = Append(@, CodeExecutionDelta("", Get(part.code_execution_result).output))]
    ELSE IF part.text # ""
    THEN [acc EXCEPT !.has_content = TRUE,
                     !.deltas = Append(@, TextDelta(part.text))]
    ELSE acc

\* usage_metadata -> the buffered usage response.  thinking_token_count is read
\* with getattr(..., 0): the attribute may be absent (None here as well).
UsageFromMetadata(um) ==
    UsageInfo(OrZero(um.prompt_token_count), OrZero(um.candidates_token_count),
              OrZero(um.total_token_count), OrZero(um.thinking_token_count))

\* _build_grounding_delta.
GroundingChunkInfos(chunks) ==
    LET step(acc, c) == IF IsNone(c.web) THEN acc
                        ELSE Append(acc, [uri |-> Get(c.web).uri, title |-> Get(c.web).title])
    IN  FoldLeft(step, <<>>, chunks)

GroundingSupports(supports) ==
    LET step(acc, sp) ==
            Append(acc, [start_index |-> IF IsNone(sp.segment) THEN 0 ELSE OrZero(Get(sp.segment).start_index),
                         end_index |-> IF IsNone(sp.segment) THEN 0 ELSE OrZero(Get(sp.segment).end_index),
                         text |-> IF IsNone(sp.segment) THEN "" ELSE Get(sp.segment).text,
                         grounding_chunk_indices |-> sp.grounding_chunk_indices])
    IN  FoldLeft(step, <<>>, supports)

build_grounding_delta(gm) ==
    Delta("grounding", [web_search_queries |-> gm.web_search_queries,
                        grounding_chunks |-> GroundingChunkInfos(gm.grounding_chunks),
                        grounding_supports |-> GroundingSupports(gm.grounding_supports),
                        search_entry_point_html |-> gm.search_entry_point])

\* Mutant of BufferUsage: the first usage metadata seen is kept.
BufferUsage_KeepFirst(last_usage, usage_metadata) ==
    IF IsNone(usage_metadata) \/ ~IsNone(last_usage) THEN last_usage
    ELSE Some(UsageFromMetadata(Get(usage_metadata)))

\* if chunk.usage_metadata: last_usage = pb.GenerateResponse(usage=...)
BufferUsage(last_usage, usage_metadata) ==
    IF IsNone(usage_metadata) THEN last_usage
    ELSE Some(UsageFromMetadata(Get(usage_metadata)))

\* An adapter is an async generator: it runs until it yields a delta, awaits
\* the upstream, raises or returns.  What is left of its code when it is
\* suspended is its frame, a sequence of steps [op, arg]; a step gives the
\* locals after it, the delta it yields (optional), how it ends the adapter
\* ("" when it does not: "return", "retryable" for _RetryableError,
\* "exception" for any other exception) and the steps it puts before the rest
\* of the frame.
Step(op, arg) == [op |-> op, arg |-> arg]

GoesOn(loc) == [loc |-> loc, yields |-> None, ends |-> "", push |-> <<>>]

Yields(loc, delta) == [loc |-> loc, yields |-> Some(delta), ends |-> "", push |-> <<>>]

Ends(loc, how) == [loc |-> loc, yields |-> None, ends |-> how, push |-> <<>>]

\* The body of `async for chunk in stream` from its top to the loop over the
\* parts, from the locals loc: the locals afterwards and the frame of the
\* chunk, which is the parts to walk and the usage to buffer after them, or
\* nothing when the body ends with `continue`.
GoogleChunkStep(loc, chunk) ==
    IF chunk.candidates = <<>>
    THEN [loc |-> [loc EXCEPT !.last_usage = BufferUsage(@, chunk.usage_metadata)],
          frame |-> <<>>]
    ELSE LET candidate == chunk.candidates[1]
             captured == IF IsNone(candidate.grounding_metadata) THEN loc
                         ELSE [loc EXCEPT !.last_grounding_metadata = candidate.grounding_metadata]
         IN  IF IsNone(candidate.content) \/ Get(candidate.content).parts = <<>>
             THEN [loc |-> [captured EXCEPT !.last_usage = BufferUsage(@, chunk.usage_metadata)],
                   frame |-> <<>>]
             ELSE LET parts == Get(candidate.content).parts
                  IN  [loc |-> captured,
                       frame |-> [i \in 1..Len(parts) |-> Step("part", parts[i])]
                                 \o <<Step("usage", chunk.usage_metadata)>>]

\* One step of _stream_with_timeout: a part of the chunk, the buffering of the
\* chunk's usage, and, after the stream, a yield or the end of the adapter.
GoogleExec(loc, step) ==
    CASE step.op = "part" ->
             LET Done(r) == LET after == [loc EXCEPT !.has_content = r.has_content]
                            IN  IF r.raised THEN Ends(after, "exception")
                                ELSE IF r.deltas # <<>> THEN Yields(after, r.deltas[1])
                                ELSE GoesOn(after)
             IN  Done(PartStep([deltas |-> <<>>, raised |-> FALSE,
                                has_content |-> loc.has_content], step.arg))
      [] step.op = "usage" ->
             GoesOn([loc EXCEPT !.last_usage = BufferUsage(@, step.arg)])
      [] step.op = "yield" -> Yields(loc, step.arg)
      [] step.op = "end" -> Ends(loc, step.arg)

\* Mutants of GoogleEndOfStream: the final marker yielded before the buffered
\* metadata; the buffered usage yielded before the grounding.
GoogleEndOfStream_FinalFirst(loc) ==
    IF ~loc.has_content
    THEN [deltas |-> <<>>, retryable |-> TRUE, raised |-> FALSE]
    ELSE [deltas |-> <<FinalChunk>>
                     \o (IF IsNone(loc.last_grounding_metadata) THEN <<>>
                         ELSE <<build_grounding_delta(Get(loc.last_grounding_metadata))>>)
                     \o (IF IsNone(loc.last_usage) THEN <<>> ELSE <<Get(loc.last_usage)>>),
          retryable |-> FALSE, raised |-> FALSE]

GoogleEndOfStream_UsageFirst(loc) ==
    IF ~loc.has_content
    THEN [deltas |-> <<>>, retryable |-> TRUE, raised |-> FALSE]
    ELSE [deltas |-> (IF IsNone(loc.last_usage) THEN <<>> ELSE <<Get(loc.last_usage)>>)
                     \o (IF IsNone(loc.last_grounding_metadata) THEN <<>>
                         ELSE <<build_grounding_delta(Get(loc.last_grounding_metadata))>>)
                     \o <<FinalChunk>>,
          retryable |-> FALSE, raised |-> FALSE]

\* Mutant of GoogleEndOfStream: the buffered usage yielded before the check of
\* has_content.
GoogleEndOfStream_UsageBeforeCheck(loc) ==
    LET usage == IF IsNone(loc.last_usage) THEN <<>> ELSE <<Get(loc.last_usage)>>
    IN  IF ~loc.has_content
        THEN [deltas |-> usage, retryable |-> TRUE, raised |-> FALSE]
        ELSE [deltas |-> (IF IsNone(loc.last_grounding_metadata) THEN <<>>
                          ELSE <<build_grounding_delta(Get(loc.last_grounding_metadata))>>)
                         \o usage \o <<FinalChunk>>,
              retryable |-> FALSE, raised |-> FALSE]

\* What _stream_with_timeout does after the stream has ended without an
\* exception: raise "empty response", or yield grounding, usage, final.
GoogleEndOfStream(loc) ==
    IF ~loc.has_content
    THEN [deltas |-> <<>>, retryable |-> TRUE, raised |-> FALSE]
    ELSE [deltas |-> (IF IsNone(loc.last_grounding_metadata) THEN <<>>
                      ELSE <<build_grounding_delta(Get(loc.last_grounding_metadata))>>)
                     \o (IF IsNone(loc.last_usage) THEN <<>> ELSE <<Get(loc.last_usage)>>)
                     \o <<FinalChunk>>,
          retryable |-> FALSE, raised |-> FALSE]

\* ---------------------------------------------- LangChainProvider: streaming
\* A chunk of model.astream(): is_ai (isinstance(chunk, AIMessageChunk)),
\* content_blocks, reasoning_summary_chunk (additional_kwargs), content (a str
\* or a list of parts), tool_call_chunks, usage_metadata (optional).
\* A block or part that is not a dict has type "other".

BlockStep(acc, block) ==
    IF block.type = "reasoning"
    THEN IF block.reasoning # ""
         THEN [acc EXCEPT !.has_content = TRUE, !.content_handled = TRUE,
                          !.deltas = Append(@, ThinkingDelta(block.reasoning))]
         ELSE acc
    ELSE IF block.type = "non_standard"
    THEN IF block.value.type = "thinking" /\ block.value.thinking # ""
         THEN [acc EXCEPT !.has_content = TRUE, !.content_handled = TRUE,
                          !.deltas = Append(@, ThinkingDelta(block.value.thinking))]
         ELSE acc
    ELSE IF block.type = "text"
    THEN IF block.text # ""
         THEN [acc EXCEPT !.has_content = TRUE, !.content_handled = TRUE,
                          !.deltas = Append(@, TextDelta(block.text))]
         ELSE acc
    ELSE acc

ReasoningSummaryStep(acc, chunk) ==
    IF chunk.reasoning_summary_chunk # ""
    THEN [acc EXCEPT !.has_content = TRUE, !.content_handled = TRUE,
                     !.deltas = Append(@, ThinkingDelta(chunk.reasoning_summary_chunk))]
    ELSE acc

ContentPartStep(acc, part) ==
    IF part.type = "thinking"
    THEN IF part.thinking # ""
         THEN [acc EXCEPT !.has_content = TRUE, !.content_handled = TRUE,
                          !.deltas = Append(@, ThinkingDelta(part.thinking))]
         ELSE acc
    ELSE IF part.type = "text"
    THEN IF part.text # ""
         THEN [acc EXCEPT !.has_content = TRUE, !.content_handled = TRUE,
                          !.deltas = Append(@, TextDelta(part.text))]
         ELSE acc
    ELSE acc

\* The fallback for a plain string content.
FallbackStep(acc, chunk) ==
    IF ~acc.content_handled /\ chunk.content.is_str /\ chunk.content.str # ""
    THEN [acc EXCEPT !.has_content = TRUE,
                     !.deltas = Append(@, TextDelta(chunk.content.str))]
    ELSE acc

\* The fallback for a list content: the parts the loop walks.  Whether the
\* loop is entered is decided once, before its first part.
FallbackParts(acc, chunk) ==
    IF ~acc.content_handled /\ ~chunk.content.is_str /\ chunk.content.list # <<>>
    THEN chunk.content.list
    ELSE <<>>

\* pending_tool_calls is the dict index -> [id, name, args]; a fragment's index
\* is optional (tc_chunk.get("index", 0) is None when the provider sets the key
\* to None), its name and id are "falsy" when <<>> and "".
ToolCallChunkStep(pending, tc_chunk) ==
    LET idx == tc_chunk.index
        entry == IF idx \in DOMAIN pending THEN pending[idx]
                 ELSE [id |-> "", name |-> <<>>, args |-> ""]
        named == IF tc_chunk.name # <<>> THEN [entry EXCEPT !.name = tc_chunk.name] ELSE entry
        ided == IF tc_chunk.id # "" THEN [named EXCEPT !.id = tc_chunk.id] ELSE named
        argd == IF tc_chunk.args # "" THEN [ided EXCEPT !.args = @ \o tc_chunk.args] ELSE ided
    IN  [i \in DOMAIN pending \cup {idx} |-> IF i = idx THEN argd ELSE pending[i]]

\* Mutant of AccumulateUsage: the last usage metadata replaces the counts.
AccumulateUsage_KeepLast(loc, usage_metadata) ==
    IF IsNone(usage_metadata) THEN loc
    ELSE [loc EXCEPT !.accumulated_input_tokens = Get(usage_metadata).input_tokens,
                     !.accumulated_output_tokens = Get(usage_metadata).output_tokens,
                     !.accumulated_total_tokens = Get(usage_metadata).total_tokens]

\* if chunk.usage_metadata: accumulated_..._tokens += ...
AccumulateUsage(loc, usage_metadata) ==
    IF IsNone(usage_metadata) THEN loc
    ELSE [loc EXCEPT !.accumulated_input_tokens = @ + Get(usage_metadata).input_tokens,
                     !.accumulated_output_tokens = @ + Get(usage_metadata).output_tokens,
                     !.accumulated_total_tokens = @ + Get(usage_metadata).total_tokens]

\* The body of `async for chunk in model.astream(messages)` from its top to
\* the first thing it does with the chunk: the locals afterwards and the frame
\* of the chunk (nothing for a chunk that is not an AIMessageChunk).
LangChainChunkStep(loc, chunk) ==
    IF ~chunk.is_ai THEN [loc |-> loc, frame |-> <<>>]
    ELSE [loc |-> [loc EXCEPT !.content_handled = FALSE],
          frame |-> [i \in 1..Len(chunk.content_blocks) |-> Step("block", chunk.content_blocks[i])]
                    \o <<Step("reasoning_summary", chunk),
                         Step("fallback", chunk),
                         Step("tool_call_chunks", chunk.tool_call_chunks),
                         Step("usage", chunk.usage_metadata)>>]

\* One step of _stream_response: a content block, the reasoning summary, the
\* fallback (which puts the parts of a list content on the frame), a content
\* part, the accumulation of the tool-call fragments and of the usage, and,
\* after the stream, a yield (has_content is set before a tool_call is
\* yielded) or the end of the adapter.
LangChainExec(loc, step) ==
    LET acc == [deltas |-> <<>>, has_content |-> loc.has_content,
                content_handled |-> loc.content_handled]
        Done(r) == LET after == [loc EXCEPT !.has_content = r.has_content,
                                            !.content_handled = r.content_handled]
                   IN  IF r.deltas # <<>> THEN Yields(after, r.deltas[1]) ELSE GoesOn(after)
    IN  CASE step.op = "block" -> Done(BlockStep(acc, step.arg))
          [] step.op = "reasoning_summary" -> Done(ReasoningSummaryStep(acc, step.arg))
          [] step.op = "fallback" ->
                 LET parts == FallbackParts(acc, step.arg)
                 IN  [Done(FallbackStep(acc, step.arg))
                         EXCEPT !.push = [i \in 1..Len(parts) |-> Step("content_part", parts[i])]]
          [] step.op = "content_part" -> Done(ContentPartStep(acc, step.arg))
          [] step.op = "tool_call_chunks" ->
                 GoesOn([loc EXCEPT !.pending_tool_calls = FoldLeft(ToolCallChunkStep, @, step.arg)])
          [] step.op = "usage" -> GoesOn(AccumulateUsage(loc, step.arg))
          [] step.op = "yield" ->
                 Yields([loc EXCEPT !.has_content = @ \/ step.arg.kind = "tool_call"], step.arg)
          [] step.op = "end" -> Ends(loc, step.arg)

\* sorted(pending_tool_calls.items()) compares the keys of the dict: None and
\* an int do not compare (TypeError); a single key is never compared.
Sortable(indices) == Cardinality(indices) <= 1 \/ None \notin indices

Min(S) == CHOOSE x \in S : \A y \in S : x = y \/ Get(x) <= Get(y)

\* for _idx, tc_data in sorted(pending_tool_calls.items()): yield ToolCallDelta
RECURSIVE PendingToolCallDeltas(_, _)
PendingToolCallDeltas(pending, indices) ==
    IF indices = {} THEN <<>>
    ELSE LET i == Min(indices)
             tc_data == pending[i]
         IN  <<ToolCallDelta(IF tc_data.id # "" THEN tc_data.id ELSE GeneratedCallId,
                             tool_name_from_api(tc_data.name),
                             IF tc_data.args # "" THEN tc_data.args ELSE "{}")>>
             \o PendingToolCallDeltas(pending, indices \ {i})

\* Mutant of LangChainEndOfStream: the usage yielded before the tool calls.
LangChainEndOfStream_UsageFirst(loc) ==
    LET calls == PendingToolCallDeltas(loc.pending_tool_calls, DOMAIN loc.pending_tool_calls)
        content == loc.has_content \/ calls # <<>>
    IN  IF ~Sortable(DOMAIN loc.pending_tool_calls)
        THEN [deltas |-> <<>>, retryable |-> FALSE, raised |-> TRUE]
        ELSE IF ~content
        THEN [deltas |-> calls, retryable |-> TRUE, raised |-> FALSE]
        ELSE [deltas |-> (IF loc.accumulated_input_tokens # 0 \/ loc.accumulated_output_tokens # 0
                          THEN <<UsageInfo(loc.accumulated_input_tokens,
                                           loc.accumulated_output_tokens,
                                           loc.accumulated_total_tokens, 0)>>
                          ELSE <<>>)
                         \o calls
                         \o <<FinalChunk>>,
              retryable |-> FALSE, raised |-> FALSE]

\* What _stream_response does after the stream has ended without an exception:
\* the accumulated tool calls (or the TypeError of sorting them), then "empty
\* response" or usage and final.
LangChainEndOfStream(loc) ==
    LET calls == PendingToolCallDeltas(loc.pending_tool_calls, DOMAIN loc.pending_tool_calls)
        content == loc.has_content \/ calls # <<>>
    IN  IF ~Sortable(DOMAIN loc.pending_tool_calls)
        THEN [deltas |-> <<>>, retryable |-> FALSE, raised |-> TRUE]
        ELSE IF ~content
        THEN [deltas |-> calls, retryable |-> TRUE, raised |-> FALSE]
        ELSE [deltas |-> calls
                         \o (IF loc.accumulated_input_tokens # 0 \/ loc.accumulated_output_tokens # 0
                             THEN <<UsageInfo(loc.accumulated_input_tokens,
                                              loc.accumulated_output_tokens,
                                              loc.accumulated_total_tokens, 0)>>
                             ELSE <<>>)
                         \o <<FinalChunk>>,
              retryable |-> FALSE, raised |-> FALSE]

\* ------------------------------------------------- the adapters as generators
\* What is left of an adapter once its stream has ended, from what its
\* epilogue does (GoogleEndOfStream, LangChainEndOfStream): the deltas to
\* yield, one yield each, and how the adapter ends.
EpilogueFrame(r) ==
    [i \in 1..Len(r.deltas) |-> Step("yield", r.deltas[i])]
    \o <<Step("end", IF r.raised THEN "exception"
                     ELSE IF r.retryable THEN "retryable"
                     ELSE "return")>>

\* The block of `async with asyncio.timeout(timeout_seconds)` encloses the
\* loop over the stream and the yields in it, and not the epilogue: the
\* deadline is pending while the adapter awaits the upstream (its frame is
\* empty) and while it is suspended at a yield of the loop.
UnderDeadline(frame) == frame = <<>> \/ frame[Len(frame)].op # "end"

\* The adapter of provider `prov` runs on with `frame` left to do, until a
\* step yields or ends it, or the frame is used up (the adapter awaits the
\* next chunk): the locals and the frame then, the delta yielded, and how the
\* adapter ended.
RECURSIVE Run(_, _, _)
Run(prov, loc, frame) ==
    IF frame = <<>> THEN [loc |-> loc, frame |-> <<>>, yields |-> None, ends |-> ""]
    ELSE LET After(r) ==
                 IF r.ends # "" THEN [loc |-> r.loc, frame |-> <<>>, yields |-> None, ends |-> r.ends]
                 ELSE IF ~IsNone(r.yields)
                 THEN [loc |-> r.loc, frame |-> r.push \o Tail(frame), yields |-> r.yields, ends |-> ""]
                 ELSE Run(prov, r.loc, r.push \o Tail(frame))
         IN  After(IF prov = "google-native" THEN GoogleExec(loc, Head(frame))
                   ELSE LangChainExec(loc, Head(frame)))

\* The adapter runs on with a consumer that asks for every delta at once: the
\* deltas it yields after `deltas` until it awaits the upstream or ends.
RECURSIVE Drain(_, _, _, _)
Drain(prov, loc, frame, deltas) ==
    LET After(r) ==
            IF IsNone(r.yields) THEN [loc |-> r.loc, deltas |-> deltas, ends |-> r.ends]
            ELSE Drain(prov, r.loc, r.frame, Append(deltas, Get(r.yields)))
    IN  After(Run(prov, loc, frame))

\* ------------------------------------------------------------ client cache
\* Both caches map a key to the instance constructed for it; instances are
\* numbered in the order of their construction.

\* Mutant of get_client: the cache is not consulted.
get_client_NoCache(cache, api_key_env, key_set) ==
    IF ~key_set
    THEN [raised |-> TRUE, value |-> [type |-> "env_not_set", text |-> api_key_env], cache |-> cache]
    ELSE LET client == Cardinality(DOMAIN cache) + 1
         IN  [raised |-> FALSE, value |-> client,
              cache |-> [k \in DOMAIN cache \cup {api_key_env} |->
                            IF k = api_key_env THEN client ELSE cache[k]]]

\* Mutant of get_client: the entry is inserted before the credential is read,
\* so that a failed construction leaves an entry behind.
get_client_InsertsFirst(cache, api_key_env, key_set) ==
    IF api_key_env \in DOMAIN cache
    THEN [raised |-> FALSE, value |-> cache[api_key_env], cache |-> cache]
    ELSE LET client == Cardinality(DOMAIN cache) + 1
             inserted == [k \in DOMAIN cache \cup {api_key_env} |->
                             IF k = api_key_env THEN client ELSE cache[k]]
         IN  IF ~key_set
             THEN [raised |-> TRUE, value |-> [type |-> "env_not_set", text |-> api_key_env],
                   cache |-> inserted]
             ELSE [raised |-> FALSE, value |-> client, cache |-> inserted]

\* GoogleNativeProvider._get_client
get_client(cache, api_key_env, key_set) ==
    IF api_key_env \in DOMAIN cache
    THEN [raised |-> FALSE, value |-> cache[api_key_env], cache |-> cache]
    ELSE IF ~key_set
    THEN [raised |-> TRUE, value |-> [type |-> "env_not_set", text |-> api_key_env], cache |-> cache]
    ELSE LET client == Cardinality(DOMAIN cache) + 1
         IN  [raised |-> FALSE, value |-> client,
              cache |-> [k \in DOMAIN cache \cup {api_key_env} |->
                            IF k = api_key_env THEN client ELSE cache[k]]]

\* Mutant of get_or_create_model: the cache is not consulted.
get_or_create_model_NoCache(cache, config, tools, key_set) ==
    LET cache_key == <<config.provider, config.model, config.api_key_env>>
        created == create_chat_model(config, key_set)
        hit == FALSE
        instance == Cardinality(DOMAIN cache) + 1
        cache1 == IF hit THEN cache
                  ELSE [k \in DOMAIN cache \cup {cache_key} |->
                           IF k = cache_key THEN instance ELSE cache[k]]
        bound == IF tools # <<>> THEN bind_tools(tools) ELSE Ok(<<>>)
    IN  IF ~hit /\ created.raised
        THEN [raised |-> TRUE, value |-> created.value, cache |-> cache]
        ELSE IF bound.raised
        THEN [raised |-> TRUE, value |-> bound.value, cache |-> cache1]
        ELSE [raised |-> FALSE, value |-> [model |-> cache1[cache_key], tools |-> bound.value],
              cache |-> cache1]

\* LangChainProvider._get_or_create_model: the model is cached before the
\* tools are bound to it.
get_or_create_model(cache, config, tools, key_set) ==
    LET cache_key == <<config.provider, config.model, config.api_key_env>>
        created == create_chat_model(config, key_set)
        hit == cache_key \in DOMAIN cache
        instance == Cardinality(DOMAIN cache) + 1
        cache1 == IF hit THEN cache
                  ELSE [k \in DOMAIN cache \cup {cache_key} |->
                           IF k = cache_key THEN instance ELSE cache[k]]
        bound == IF tools # <<>> THEN bind_tools(tools) ELSE Ok(<<>>)
    IN  IF ~hit /\ created.raised
        THEN [raised |-> TRUE, value |-> created.value, cache |-> cache]
        ELSE IF bound.raised
        THEN [raised |-> TRUE, value |-> bound.value, cache |-> cache1]
        ELSE [raised |-> FALSE, value |-> [model |-> cache1[cache_key], tools |-> bound.value],
              cache |-> cache1]

\* --------------------------------------------------- generate(): preparation
\* What generate() does before the retry loop: the error delta it yields (and
\* returns), or the upstream request it has built; and the cache afterwards.

NoUpstreamRequest == [client |-> 0, tools |-> <<>>, system_instruction |-> None, contents |-> <<>>]

GooglePrepare(cache, req, key_set) ==
    LET client == get_client(cache, req.llm_config.api_key_env, key_set)
        messages == google_convert_messages(req.messages)
        tools == google_convert_tools(req.tools, req.llm_config.native_tools)
    IN  IF client.raised
        THEN [error |-> Some(ErrorDelta("credentials", FALSE)), cache |-> client.cache,
              upstream |-> NoUpstreamRequest]
        ELSE IF messages.raised \/ tools.raised
        THEN [error |-> Some(ErrorDelta("invalid_request", FALSE)), cache |-> client.cache,
              upstream |-> NoUpstreamRequest]
        ELSE [error |-> None, cache |-> client.cache,
              upstream |-> [client |-> client.value, tools |-> tools.value,
                            system_instruction |-> messages.system_instruction,
                            contents |-> messages.contents]]

LangChainPrepare(cache, req, key_set) ==
    LET model == get_or_create_model(cache, req.llm_config, req.tools, key_set)
        messages == langchain_convert_messages(req.messages)
    IN  IF model.raised
        THEN [error |-> Some(ErrorDelta(IF NotSetInMessage(model.value)
                                        THEN "credentials" ELSE "invalid_request", FALSE)),
              cache |-> model.cache, upstream |-> NoUpstreamRequest]
        ELSE IF messages.raised
        THEN [error |-> Some(ErrorDelta("invalid_request", FALSE)), cache |-> model.cache,
              upstream |-> NoUpstreamRequest]
        ELSE [error |-> None, cache |-> model.cache,
              upstream |-> [client |-> model.value.model, tools |-> model.value.tools,
                            system_instruction |-> None, contents |-> messages.contents]]

\* ----------------------------------------------------------- generate(): loop
\* The retry loop is the same text in both providers.

\* Mutants of LoopContinues: a single attempt; one attempt too many.
LoopContinues_Once(att) == att < 1

LoopContinues_OffByOne(att) == att <= MAX_RETRIES

\* for attempt in range(MAX_RETRIES)
LoopContinues(att) == att < MAX_RETRIES

\* Mutants of OnRetryableError: the retry not guarded by chunks_yielded; the
\* partial-output error reported with the code of exhausted retries.
OnRetryableError_NoGuard(yielded, att) ==
    [deltas |-> <<>>, returns |-> FALSE, delay |-> Some(Pow(RETRY_BACKOFF_BASE, att))]

OnRetryableError_WrongCode(yielded, att) ==
    IF yielded > 0
    THEN [deltas |-> <<ErrorDelta("max_retries", FALSE)>>, returns |-> TRUE, delay |-> None]
    ELSE [deltas |-> <<>>, returns |-> FALSE, delay |-> Some(Pow(RETRY_BACKOFF_BASE, att))]

\* Mutant of OnRetryableError: the delay grows linearly with the attempt.
OnRetryableError_LinearBackoff(yielded, att) ==
    IF yielded > 0
    THEN [deltas |-> <<ErrorDelta("partial_stream_error", FALSE)>>, returns |-> TRUE, delay |-> None]
    ELSE [deltas |-> <<>>, returns |-> FALSE, delay |-> Some(att + 1)]

\* except _RetryableError: what generate() yields, whether it returns, and the
\* delay it sleeps before the next attempt.
OnRetryableError(yielded, att) ==
    IF yielded > 0
    THEN [deltas |-> <<ErrorDelta("partial_stream_error", FALSE)>>, returns |-> TRUE, delay |-> None]
    ELSE [deltas |-> <<>>, returns |-> FALSE, delay |-> Some(Pow(RETRY_BACKOFF_BASE, att))]

\* Mutants of OnException: every exception retried like the retryable one; the
\* error flagged retryable.
OnException_Retry == [deltas |-> <<>>, returns |-> FALSE, delay |-> Some(1)]

OnException_Retryable ==
    [deltas |-> <<ErrorDelta("provider_error", TRUE)>>, returns |-> TRUE, delay |-> None]

\* except Exception
OnException == [deltas |-> <<ErrorDelta("provider_error", FALSE)>>, returns |-> TRUE, delay |-> None]

\* Mutant of OnExhausted: the loop falls through without a delta.
OnExhausted_Nothing == <<>>

\* after the loop: all retries exhausted
OnExhausted == <<ErrorDelta("max_retries", FALSE)>>

\* ------------------------------------------------ generate() as a generator
\* A call of generate() is the record g of where it stands (pc), its loop
\* variables, the deltas it has yielded (out), the number of times it has
\* invoked its adapter, and the adapter's locals and frame.  generate() is
\* suspended where the adapter awaits the upstream ("streaming"), at the
\* `yield chunk` of the loop ("yielded"), at the yield of an error delta
\* ("failed") and in asyncio.sleep ("sleeping"); it is over when it has
\* returned ("done") or when the task that consumes it has been cancelled
\* ("cancelled").

\* The locals of a streaming adapter when it is invoked.
FreshLocals ==
    [has_content |-> FALSE, content_handled |-> FALSE,
     last_usage |-> None, last_grounding_metadata |-> None,
     pending_tool_calls |-> <<>>, accumulated_input_tokens |-> 0,
     accumulated_output_tokens |-> 0, accumulated_total_tokens |-> 0]

\* Mutant of ResetLocals: the buffers of the adapter outlive the attempt.
ResetLocals_KeepBuffers(loc) == [loc EXCEPT !.has_content = FALSE, !.content_handled = FALSE]

\* Each invocation of the adapter has locals of its own.
ResetLocals(loc) == FreshLocals

\* What the upstream, the clock or the consumer does to a suspended call.
Event(kind, chunk) == [kind |-> kind, chunk |-> chunk]

\* A step of a call: the call afterwards, how the attempt has ended in the
\* step ("" when it has not) and the delay of the sleep the call has gone to.
Outcome(g, how, delay) == [g |-> g, how |-> how, delay |-> delay]

\* The except clause `handler` of generate() runs: it yields its error delta,
\* or calls asyncio.sleep.
Handle(g, handler, how) ==
    Outcome([g EXCEPT !.out = @ \o handler.deltas,
                      !.frame = <<>>,
                      !.pc = IF ~handler.returns THEN "sleeping"
                             ELSE IF handler.deltas = <<>> THEN "done"
                             ELSE "failed"],
            how, handler.delay)

\* The adapter runs on with `frame` left to do; generate() yields the delta
\* the adapter yields, handles what it raises, or returns when it returns.
Continue(prov, g, frame) ==
    LET After(r) ==
            LET ran == [g EXCEPT !.loc = r.loc, !.frame = r.frame]
            IN  IF r.ends = "return" THEN Outcome([ran EXCEPT !.pc = "done"], "success", None)
                ELSE IF r.ends = "retryable"
                THEN Handle(ran, OnRetryableError(g.chunks_yielded, g.attempt), "empty")
                ELSE IF r.ends = "exception" THEN Handle(ran, OnException, "exception")
                ELSE IF ~IsNone(r.yields)
                THEN Outcome([ran EXCEPT !.out = Append(@, Get(r.yields)), !.pc = "yielded"],
                             "", None)
                ELSE Outcome([ran EXCEPT !.pc = "streaming"], "", None)
    IN  After(Run(prov, g.loc, frame))

\* The step of a call from one suspension point to the next, on the event
\* `ev`.
GenerateStep(prov, g, ev) ==
    CASE ev.kind = "attempt" ->
             \* an iteration of the loop begins: the adapter is invoked and
             \* awaits the upstream
             Outcome([g EXCEPT !.pc = "streaming", !.chunks_yielded = 0,
                               !.upstream_calls = @ + 1,
                               !.loc = ResetLocals(@), !.frame = <<>>], "", None)
      [] ev.kind = "chunk" ->
             \* the upstream delivers a chunk
             LET Walk(r) == Continue(prov, [g EXCEPT !.loc = r.loc], r.frame)
             IN  Walk(IF prov = "google-native" THEN GoogleChunkStep(g.loc, ev.chunk)
                      ELSE LangChainChunkStep(g.loc, ev.chunk))
      [] ev.kind = "end" ->
             \* the upstream stream ends
             Continue(prov, g, EpilogueFrame(IF prov = "google-native"
                                             THEN GoogleEndOfStream(g.loc)
                                             ELSE LangChainEndOfStream(g.loc)))
      [] ev.kind = "resume" ->
             \* the consumer asks for the next delta: chunks_yielded += 1
             Continue(prov, [g EXCEPT !.chunks_yielded = @ + 1], g.frame)
      [] ev.kind = "timeout" ->
             \* the deadline expires while the adapter awaits the upstream:
             \* asyncio.TimeoutError becomes _RetryableError
             Handle(g, OnRetryableError(g.chunks_yielded, g.attempt), "timeout")
      [] ev.kind = "cancel" ->
             \* the deadline expires while the consumer holds a delta:
             \* asyncio.timeout cancels the task that entered the block, which
             \* is the consumer's; generate() is not resumed
             Outcome([g EXCEPT !.pc = "cancelled"], "", None)
      [] ev.kind = "raises" ->
             \* the upstream call or the upstream stream raises
             Handle(g, OnException, "exception")
      [] ev.kind = "slept" ->
             \* asyncio.sleep(delay) returns
             Outcome([g EXCEPT !.attempt = @ + 1, !.pc = "retry_loop"], "", None)
      [] ev.kind = "exhausted" ->
             \* the loop is over
             Outcome([g EXCEPT !.out = @ \o OnExhausted,
                               !.pc = IF OnExhausted = <<>> THEN "done" ELSE "failed"],
                     "", None)
      [] ev.kind = "returns" ->
             \* the consumer asks for the delta after the error delta
             Outcome([g EXCEPT !.pc = "done"], "", None)

\* --------------------------------------------------------------- the inputs

SERVER_READ == <<"s", "e", "r", "v", "e", "r", ".", "r", "e", "a", "d">>

SERVER_READ_API == <<"s", "e", "r", "v", "e", "r", "_", "_", "r", "e", "a", "d">>

BAD_NAME == <<"a", "_", "_", "b", ".", "c">>

KEY_ENV == <<"K", "E", "Y">>

Message(role, content, tool_calls, tool_name) ==
    [role |-> role, content |-> content, tool_calls |-> tool_calls, tool_name |-> tool_name]

NoNativeTools == [google_search |-> FALSE, code_execution |-> FALSE, url_context |-> FALSE]

Request(provider_name, messages, tools, native_tools) ==
    [llm_config |-> [provider |-> provider_name, model |-> "m", api_key_env |-> KEY_ENV,
                     native_tools |-> native_tools],
     messages |-> messages, tools |-> tools]

\* The requests of the model: a plain one, one with a tool conversation, and
\* the malformed ones (second system message, unknown role, unknown role and a
\* rejected tool name, a tool name with "__" in a segment, an unsupported
\* provider).
Requests ==
    { Request(OPENAI, <<Message("user", "Hi", <<>>, <<>>)>>, <<>>, NoNativeTools),
      Request(OPENAI, <<Message("system", "S", <<>>, <<>>),
                        Message("assistant", "", <<SERVER_READ>>, <<>>),
                        Message("tool", "{}", <<>>, SERVER_READ)>>,
              <<SERVER_READ>>, [NoNativeTools EXCEPT !.google_search = TRUE]),
      Request(OPENAI, <<Message("system", "S", <<>>, <<>>),
                        Message("system", "T", <<>>, <<>>)>>, <<>>, NoNativeTools),
      Request(OPENAI, <<Message("user", "Hi", <<>>, <<>>),
                        Message("function", "x", <<>>, <<>>)>>, <<>>, NoNativeTools),
      Request(OPENAI, <<Message("", "x", <<>>, <<>>)>>, <<BAD_NAME>>, NoNativeTools),
      Request(OPENAI, <<Message("user", "Hi", <<>>, <<>>)>>, <<BAD_NAME>>, NoNativeTools),
      Request(<<"n", "o", "p", "e">>, <<Message("user", "Hi", <<>>, <<>>)>>, <<>>, NoNativeTools) }

\* Upstream parts and chunks of the Gemini SDK.
Part == [thought |-> FALSE, text |-> "", function_call |-> None,
         executable_code |-> None, code_execution_result |-> None]

TextPart(t) == [Part EXCEPT !.text = t]

ThoughtPart(t) == [Part EXCEPT !.thought = TRUE, !.text = t]

\* A function call of the Gemini SDK: name, args and the optional id.
FunctionCall(id, name, args) == [id |-> id, name |-> name, args |-> args]

FunctionCallPart(name, args) == [Part EXCEPT !.function_call = Some(FunctionCall(None, name, args))]

Usage(p, c, t, th) == [prompt_token_count |-> p, candidates_token_count |-> c,
                       total_token_count |-> t, thinking_token_count |-> th]

GroundingMetadata(queries) ==
    [web_search_queries |-> queries,
     grounding_chunks |-> <<[web |-> Some([uri |-> "u", title |-> "t"])], [web |-> None]>>,
     grounding_supports |-> <<[segment |-> None, grounding_chunk_indices |-> <<0>>]>>,
     search_entry_point |-> ""]

GoogleChunk(gm, parts, usage) ==
    [candidates |-> <<[grounding_metadata |-> gm, content |-> Some([parts |-> parts])]>>,
     usage_metadata |-> usage]

GoogleChunks ==
    { [candidates |-> <<>>, usage_metadata |-> Some(Usage(Some(10), Some(20), Some(30), Some(5)))],
      GoogleChunk(None, <<TextPart("Hello!")>>, None),
      GoogleChunk(Some(GroundingMetadata(<<"q1">>)), <<ThoughtPart("hm")>>,
                  Some(Usage(Some(1), None, Some(3), None))),
      GoogleChunk(None, <<[Part EXCEPT !.function_call =
                                   Some(FunctionCall(Some("g1"), Some(SERVER_READ_API),
                                                     <<<<Codes("path"), JStr(Codes("/tmp"))>>,
                                                       <<Codes("q"), JStr(Codes("a\"") \o <<233>>)>>,
                                                       <<Codes("n"), JInt(1)>>,
                                                       <<Codes("d"),
                                                         dict(<<<<Codes("x"),
                                                                  JList(<<JFloat("1.5"), JNull,
                                                                          JBool(TRUE)>>)>>>>)>>>>))],
                          TextPart("ok")>>, None),
      GoogleChunk(None, <<[Part EXCEPT !.executable_code = Some([code |-> "print(1)"])],
                          [Part EXCEPT !.code_execution_result = Some([output |-> "1"])]>>, None),
      GoogleChunk(None, <<TextPart("Partial"), FunctionCallPart(None, <<>>)>>, None),
      [candidates |-> <<[grounding_metadata |-> Some(GroundingMetadata(<<"q2">>)), content |-> None]>>,
       usage_metadata |-> Some(Usage(Some(7), Some(8), Some(15), Some(0)))],
      GoogleChunk(None, <<ThoughtPart("")>>, None) }

\* Upstream chunks of LangChain's astream().
Block(type) == [type |-> type, reasoning |-> "", value |-> [type |-> "", thinking |-> ""], text |-> ""]

ContentPart(type, t) == [type |-> type, thinking |-> IF type = "thinking" THEN t ELSE "",
                         text |-> IF type = "text" THEN t ELSE ""]

Str(t) == [is_str |-> TRUE, str |-> t, list |-> <<>>]

List(parts) == [is_str |-> FALSE, str |-> "", list |-> parts]

\* The name a later fragment of a tool call carries.
RENAMED_API == <<"x">>

Fragment(index, name, id, args) == [index |-> index, name |-> name, id |-> id, args |-> args]

UsageMetadata(i, o, t) == [input_tokens |-> i, output_tokens |-> o, total_tokens |-> t]

AIMessageChunk == [is_ai |-> TRUE, content_blocks |-> <<>>, reasoning_summary_chunk |-> "",
                   content |-> Str(""), tool_call_chunks |-> <<>>, usage_metadata |-> None]

LangChainChunks ==
    { [AIMessageChunk EXCEPT !.is_ai = FALSE, !.content = Str("skipped")],
      [AIMessageChunk EXCEPT !.content_blocks = <<[Block("text") EXCEPT !.text = "Hello!"]>>],
      [AIMessageChunk EXCEPT !.content_blocks =
                                 <<[Block("reasoning") EXCEPT !.reasoning = "hm"],
                                   [Block("non_standard") EXCEPT !.value = [type |-> "thinking", thinking |-> "th"]],
                                   Block("text")>>,
                             !.usage_metadata = Some(UsageMetadata(100, 0, 100))],
      [AIMessageChunk EXCEPT !.reasoning_summary_chunk = "sum", !.content = Str("handled")],
      [AIMessageChunk EXCEPT !.content = Str("ok")],
      [AIMessageChunk EXCEPT !.content = List(<<ContentPart("thinking", "t"), ContentPart("text", "x"),
                                                ContentPart("other", "")>>)],
      [AIMessageChunk EXCEPT !.tool_call_chunks = <<Fragment(Some(0), SERVER_READ_API, "c1", "{\"pa")>>],
      [AIMessageChunk EXCEPT !.tool_call_chunks = <<Fragment(Some(0), <<>>, "", "th\":\"/tmp\"}")>>,
                             !.usage_metadata = Some(UsageMetadata(0, 50, 50))],
      [AIMessageChunk EXCEPT !.tool_call_chunks = <<Fragment(Some(1), <<>>, "", "")>>],
      [AIMessageChunk EXCEPT !.tool_call_chunks = <<Fragment(Some(0), RENAMED_API, "c2", "")>>],
      [AIMessageChunk EXCEPT !.tool_call_chunks = <<Fragment(None, SERVER_READ_API, "", "{}")>>],
      [AIMessageChunk EXCEPT !.usage_metadata = Some(UsageMetadata(0, 0, 7))] }

\* ------------------------------------------------------------------- state

VARIABLES
    provider,        \* the provider instance serving the requests
    env_set,         \* the variable named by api_key_env is set in os.environ
    client_cache,    \* _clients / _model_cache: cache key -> instance
    request,         \* the GenerateRequest being served
    pc,              \* where generate() stands
    upstream_request,\* the converted messages and tools
    attempt,         \* the loop variable of the retry loop
    chunks_yielded,
    last_error,
    out,             \* the deltas generate() has yielded, in order
    sleeps,          \* the delays of the asyncio.sleep calls, in order
    upstream_calls,  \* invocations of the streaming adapter
    attempts_log,    \* per finished attempt: how it ended and what it yielded
    consumed,        \* upstream chunks consumed by the running attempt
    received,        \* those chunks, in the order of their arrival
    has_content,
    content_handled,
    last_usage,
    last_grounding_metadata,
    pending_tool_calls,
    accumulated_input_tokens,
    accumulated_output_tokens,
    accumulated_total_tokens,
    frame,           \* what is left of the suspended adapter's code
    backend,         \* llm_config.backend of the request the dispatcher serves
    dispatch_pc,     \* where the dispatcher's Generate stands
    invoked,         \* the providers whose generate() Generate has called
    responses,       \* the deltas Generate has yielded to the transport, in order
    propagated,      \* an exception has left Generate
    parked_cache,    \* the client cache of the registered provider not running
    rpc_request,     \* the GenerateRequest the transport handed to Generate
    registry_gets,   \* the names Generate has asked the registry for, in order
    _providers,      \* ProviderRegistry._providers: backend name -> provider
    registered,      \* the register() calls made on the registry, in order
    got,             \* the last get() call on the registry and its outcome
    _thought_signatures, \* execution id -> (signature, time of the write)
    clock,           \* time.time(), in seconds
    ticks,           \* how often the clock has been seen to advance
    sig_read,        \* the last read of the signature cache and its result
    last_written,    \* per execution id, the last write: signature and time
    tasks            \* the concurrent generate() calls on the provider: task -> its state

process == <<provider, env_set, client_cache>>

call == <<request, upstream_request>>

loop == <<attempt, chunks_yielded, last_error, sleeps, upstream_calls, attempts_log>>

locals == <<consumed, received, has_content, content_handled, last_usage, last_grounding_metadata,
            pending_tool_calls, accumulated_input_tokens, accumulated_output_tokens,
            accumulated_total_tokens, frame>>

dispatcher == <<backend, dispatch_pc, invoked, responses, propagated, parked_cache,
                rpc_request, registry_gets>>

registry == <<_providers, registered, got>>

signatures == <<_thought_signatures, clock, ticks, sig_read, last_written>>

vars == <<process, call, pc, out, loop, locals, dispatcher, registry, signatures, tasks>>

\* ----------------------------------------------------------------- actions

Providers == {"google-native", "langchain"}

IsGoogle == provider = "google-native"

\* The adapter's locals, as a record.
Locals ==
    [has_content |-> has_content, content_handled |-> content_handled,
     last_usage |-> last_usage, last_grounding_metadata |-> last_grounding_metadata,
     pending_tool_calls |-> pending_tool_calls,
     accumulated_input_tokens |-> accumulated_input_tokens,
     accumulated_output_tokens |-> accumulated_output_tokens,
     accumulated_total_tokens |-> accumulated_total_tokens]

\* The call of generate() being served, as a record.
Generator ==
    [pc |-> pc, attempt |-> attempt, chunks_yielded |-> chunks_yielded, out |-> out,
     upstream_calls |-> upstream_calls, loc |-> Locals, frame |-> frame]

SetLocals(loc) ==
    /\ has_content' = loc.has_content
    /\ content_handled' = loc.content_handled
    /\ last_usage' = loc.last_usage
    /\ last_grounding_metadata' = loc.last_grounding_metadata
    /\ pending_tool_calls' = loc.pending_tool_calls
    /\ accumulated_input_tokens' = loc.accumulated_input_tokens
    /\ accumulated_output_tokens' = loc.accumulated_output_tokens
    /\ accumulated_total_tokens' = loc.accumulated_total_tokens

ResetCall ==
    /\ pc' = "start"
    /\ upstream_request' = NoUpstreamRequest
    /\ attempt' = 0
    /\ chunks_yielded' = 0
    /\ last_error' = ""
    /\ out' = <<>>
    /\ sleeps' = <<>>
    /\ upstream_calls' = 0
    /\ attempts_log' = <<>>
    /\ consumed' = 0
    /\ received' = <<>>
    /\ SetLocals(FreshLocals)
    /\ frame' = <<>>

InitWith(requests) ==
    /\ provider \in Providers
    /\ env_set \in BOOLEAN
    /\ client_cache = <<>>
    /\ request \in requests
    /\ pc = "start"
    /\ upstream_request = NoUpstreamRequest
    /\ attempt = 0
    /\ chunks_yielded = 0
    /\ last_error = ""
    /\ out = <<>>
    /\ sleeps = <<>>
    /\ upstream_calls = 0
    /\ attempts_log = <<>>
    /\ consumed = 0
    /\ received = <<>>
    /\ has_content = FreshLocals.has_content
    /\ content_handled = FreshLocals.content_handled
    /\ last_usage = FreshLocals.last_usage
    /\ last_grounding_metadata = FreshLocals.last_grounding_metadata
    /\ pending_tool_calls = FreshLocals.pending_tool_calls
    /\ accumulated_input_tokens = FreshLocals.accumulated_input_tokens
    /\ accumulated_output_tokens = FreshLocals.accumulated_output_tokens
    /\ accumulated_total_tokens = FreshLocals.accumulated_total_tokens
    /\ frame = <<>>

\* No request at hand: Generate has not called generate(), or there is no
\* Generate.
NoRequest == Request(<<>>, <<>>, <<>>, NoNativeTools)

\* generate() is called on the provider itself, as its tests do: no dispatcher.
NoDispatcher ==
    /\ backend = ""
    /\ dispatch_pc = "idle"
    /\ invoked = <<>>
    /\ responses = <<>>
    /\ propagated = FALSE
    /\ parked_cache = <<>>
    /\ rpc_request = NoRequest
    /\ registry_gets = <<>>

\* A registry nobody has registered a provider with, or asked.
NoRegistry ==
    /\ _providers = <<>>
    /\ registered = <<>>
    /\ got = None

\* The execution ids of the requests.
ExecutionIds == {"e1", "e2"}

\* A provider whose signature cache has not been used.
NoSignatures ==
    /\ _thought_signatures = <<>>
    /\ clock = 0
    /\ ticks = 0
    /\ sig_read = None
    /\ last_written = [id \in ExecutionIds |-> None]

\* A provider that serves one request at a time.
NoTasks == tasks = <<>>

Direct == UNCHANGED <<dispatcher, registry, signatures, tasks>>

Init == InitWith(Requests) /\ NoDispatcher /\ NoRegistry /\ NoSignatures /\ NoTasks

\* generate() up to the retry loop: it goes into the loop, or yields an error
\* delta.
Prepare ==
    /\ pc = "start"
    /\ LET r == IF IsGoogle THEN GooglePrepare(client_cache, request, env_set)
                ELSE LangChainPrepare(client_cache, request, env_set)
       IN  /\ client_cache' = r.cache
           /\ upstream_request' = r.upstream
           /\ IF IsNone(r.error)
              THEN pc' = "retry_loop" /\ out' = out
              ELSE pc' = "failed" /\ out' = Append(out, Get(r.error))
    /\ UNCHANGED <<provider, env_set, request, loop, locals>>

\* The call being served takes the step of the event `ev`; the log of the
\* attempts and of the sleeps is kept.
Takes(ev) ==
    LET Becomes(r) ==
            /\ pc' = r.g.pc
            /\ attempt' = r.g.attempt
            /\ chunks_yielded' = r.g.chunks_yielded
            /\ out' = r.g.out
            /\ upstream_calls' = r.g.upstream_calls
            /\ SetLocals(r.g.loc)
            /\ frame' = r.g.frame
            /\ attempts_log' = IF r.how = "" THEN attempts_log
                               ELSE Append(attempts_log,
                                           [outcome |-> r.how, yielded |-> r.g.chunks_yielded])
            /\ IF IsNone(r.delay)
               THEN UNCHANGED <<last_error, sleeps>>
               ELSE last_error' = r.how /\ sleeps' = Append(sleeps, Get(r.delay))
    IN  Becomes(GenerateStep(provider, Generator, ev))

\* An iteration of the retry loop begins: the streaming adapter is invoked.
StartAttempt ==
    /\ pc = "retry_loop"
    /\ LoopContinues(attempt)
    /\ Takes(Event("attempt", None))
    /\ consumed' = 0
    /\ received' = <<>>
    /\ UNCHANGED <<process, call>>

\* The loop is over: every attempt ended with the retryable condition.
Exhausted ==
    /\ pc = "retry_loop"
    /\ ~LoopContinues(attempt)
    /\ Takes(Event("exhausted", None))
    /\ UNCHANGED <<process, call, consumed, received>>

\* The upstream delivers a chunk to the adapter, which runs up to its next
\* yield or await; generate() yields what the adapter yields and handles what
\* it raises.
Receive(chunk) ==
    /\ pc = "streaming"
    /\ consumed' = consumed + 1
    /\ received' = Append(received, chunk)
    /\ Takes(Event("chunk", chunk))
    /\ UNCHANGED <<process, call>>

\* A chunk for GoogleNativeProvider._stream_with_timeout.
GoogleReceive(chunk) == IsGoogle /\ Receive(chunk)

GoogleReceiveChunk ==
    /\ consumed < MaxChunks
    /\ \E chunk \in GoogleChunks : GoogleReceive(chunk)

\* A chunk for LangChainProvider._stream_response.
LangChainReceive(chunk) == ~IsGoogle /\ Receive(chunk)

LangChainReceiveChunk ==
    /\ consumed < MaxChunks
    /\ \E chunk \in LangChainChunks : LangChainReceive(chunk)

\* The consumer asks for the next delta: generate() counts the delta it had
\* yielded and resumes the adapter, which runs up to its next yield or await.
Resume ==
    /\ pc = "yielded"
    /\ Takes(Event("resume", None))
    /\ UNCHANGED <<process, call, consumed, received>>

\* The upstream stream ends: the adapter's epilogue up to its first yield; or
\* generate() handles the "empty response" condition.
EndOfStream ==
    /\ pc = "streaming"
    /\ Takes(Event("end", None))
    /\ UNCHANGED <<process, call, consumed, received>>

\* The deadline of asyncio.timeout expires while the adapter awaits the
\* upstream: asyncio.TimeoutError becomes _RetryableError.  (A TimeoutError
\* raised by the SDK itself is caught by the same clause.)
DeadlineExpires ==
    /\ pc = "streaming"
    /\ Takes(Event("timeout", None))
    /\ UNCHANGED <<process, call, consumed, received>>

\* The deadline expires while generate() is suspended at a yield of the
\* adapter's loop: the consumer's task is cancelled.
DeadlineExpiresAtYield ==
    /\ pc = "yielded"
    /\ UnderDeadline(frame)
    /\ Takes(Event("cancel", None))
    /\ UNCHANGED <<process, call, consumed, received>>

\* The upstream call or the upstream stream raises an exception of the SDK.
UpstreamRaises ==
    /\ pc = "streaming"
    /\ Takes(Event("raises", None))
    /\ UNCHANGED <<process, call, consumed, received>>

\* asyncio.sleep(delay) returns: the loop goes on to the next attempt.
BackoffElapsed ==
    /\ pc = "sleeping"
    /\ Takes(Event("slept", None))
    /\ UNCHANGED <<process, call, consumed, received>>

\* The consumer asks for the delta after an error delta: generate() returns.
Returns ==
    /\ pc = "failed"
    /\ Takes(Event("returns", None))
    /\ UNCHANGED <<process, call, consumed, received>>

\* generate() is over; the provider serves the next request.
NextRequest ==
    /\ pc \in {"done", "cancelled"}
    /\ request' \in Requests
    /\ ResetCall
    /\ UNCHANGED process

Next ==
    \/ Prepare /\ Direct
    \/ StartAttempt /\ Direct
    \/ Exhausted /\ Direct
    \/ GoogleReceiveChunk /\ Direct
    \/ LangChainReceiveChunk /\ Direct
    \/ Resume /\ Direct
    \/ EndOfStream /\ Direct
    \/ DeadlineExpires /\ Direct
    \/ DeadlineExpiresAtYield /\ Direct
    \/ UpstreamRaises /\ Direct
    \/ BackoffElapsed /\ Direct
    \/ Returns /\ Direct
    \/ NextRequest /\ Direct

Spec == Init /\ [][Next]_vars

\* The event loop runs a sleep that is over and a loop that can go on; the
\* consumer is not assumed to ask for the next delta.
FairSpec == Spec /\ WF_vars(BackoffElapsed /\ Direct) /\ WF_vars(StartAttempt /\ Direct)

\* ------------------------------------------------------------ the dispatcher
\* A third specification: the requests arrive at the dispatcher's Generate,
\* which looks the backend up in the registry and streams what the provider's
\* generate() yields.  Generate consumes generate() as an async generator, so
\* each delta is passed on before the provider runs on.

\* A value of the registry's dict is optional: a provider, or None (which
\* register() stores like any other value).

\* self._providers.get(backend)
dict_get(providers, name) == IF name \in DOMAIN providers THEN providers[name] ELSE None

\* Mutant of registry_get: a name without a provider gives the first provider.
registry_get_Fallback(providers, name) ==
    IF ~IsNone(dict_get(providers, name)) THEN Ok(Get(dict_get(providers, name)))
    ELSE Ok(Get(CHOOSE v \in {providers[n] : n \in DOMAIN providers} : ~IsNone(v)))

\* a < b for two str values: by the code points of the first characters that
\* differ, a proper prefix being the lesser.
RECURSIVE StrLess(_, _)
StrLess(a, b) ==
    IF b = "" THEN FALSE
    ELSE IF a = "" THEN TRUE
    ELSE IF Head(a) = Head(b) THEN StrLess(Tail(a), Tail(b))
    ELSE OrdOf(Head(a)) < OrdOf(Head(b))

\* Mutant of sorted: descending.
RECURSIVE sorted_Descending(_)
sorted_Descending(keys) ==
    IF keys = {} THEN <<>>
    ELSE LET first == CHOOSE x \in keys : \A y \in keys : x = y \/ StrLess(y, x)
         IN  <<first>> \o sorted_Descending(keys \ {first})

\* sorted(self._providers.keys())
RECURSIVE sorted(_)
sorted(keys) ==
    IF keys = {} THEN <<>>
    ELSE LET first == CHOOSE x \in keys : \A y \in keys : x = y \/ StrLess(x, y)
         IN  <<first>> \o sorted(keys \ {first})

\* ", ".join(names)
RECURSIVE join(_)
join(names) ==
    IF names = <<>> THEN ""
    ELSE IF Len(names) = 1 THEN names[1]
    ELSE names[1] \o ", " \o join(Tail(names))

\* Mutant of register: a name once registered keeps its provider.
register_KeepFirst(providers, name, instance) ==
    [n \in DOMAIN providers \cup {name} |->
        IF n \in DOMAIN providers THEN providers[n] ELSE instance]

\* ProviderRegistry.register: the dict after self._providers[backend] = provider
register(providers, name, instance) ==
    [n \in DOMAIN providers \cup {name} |-> IF n = name THEN instance ELSE providers[n]]

\* ProviderRegistry.get: the provider returned, or the ValueError raised when
\* the dict gives None for the name (no entry, or an entry that holds None).
registry_get(providers, name) ==
    LET found == dict_get(providers, name)
    IN  IF IsNone(found)
        THEN LET listed == join(sorted(DOMAIN providers))
                 available == IF listed = "" THEN "(none)" ELSE listed
             IN  Raise("ValueError", "No provider registered for backend '" \o name
                                     \o "'. Available backends: " \o available)
        ELSE Ok(Get(found))

\* ProviderRegistry._providers after the registrations at process start.
Registry == [name \in Providers |-> Some(name)]

DEFAULT_BACKEND == "google-native"

\* The backend names of the requests: none, the registered ones, an unknown one.
Backends == {"", "google-native", "langchain", "nope"}

\* The name Generate looks up.
BackendName(name) == IF name = "" THEN DEFAULT_BACKEND ELSE name

\* What Generate yields when the lookup fails.
OnUnknownBackend == <<ErrorDelta("invalid_backend", FALSE)>>

\* Mutant of OnProviderException: the exception leaves Generate.
OnProviderException_Propagates == [deltas |-> <<>>, propagates |-> TRUE]

\* What Generate does with an exception of the provider's generate().
OnProviderException == [deltas |-> <<ErrorDelta("internal", FALSE)>>, propagates |-> FALSE]

\* Mutant of DispatchForward: the newest deltas are put first.
DispatchForward_NewestFirst(sent, deltas) == deltas \o sent

\* Generate yields the deltas it got from the provider.
DispatchForward(sent, deltas) == sent \o deltas

\* Mutant of PassedRequest: the provider gets the request without its tools.
PassedRequest_NoTools(req) == [req EXCEPT !.tools = <<>>]

\* The request Generate calls the provider's generate() with.
PassedRequest(req) == req

DispatchInit ==
    /\ InitWith({NoRequest})
    /\ rpc_request \in Requests
    /\ backend \in Backends
    /\ dispatch_pc = "lookup"
    /\ invoked = <<>>
    /\ responses = <<>>
    /\ propagated = FALSE
    /\ parked_cache = <<>>
    /\ registry_gets = <<>>
    /\ _providers = Registry
    /\ registered = <<>>
    /\ got = None
    /\ NoSignatures /\ NoTasks

\* Generate reads the backend name and asks the registry; on a hit it calls
\* the provider's generate().  Each provider keeps its own client cache.
Lookup ==
    /\ dispatch_pc = "lookup"
    /\ registry_gets' = Append(registry_gets, BackendName(backend))
    /\ LET r == registry_get(_providers, BackendName(backend))
       IN  IF r.raised
           THEN /\ responses' = responses \o OnUnknownBackend
                /\ dispatch_pc' = "done"
                /\ UNCHANGED <<provider, client_cache, parked_cache, invoked, request>>
           ELSE /\ dispatch_pc' = "streaming"
                /\ invoked' = Append(invoked, r.value)
                /\ request' = PassedRequest(rpc_request)
                /\ provider' = r.value
                /\ IF r.value = provider
                   THEN UNCHANGED <<client_cache, parked_cache>>
                   ELSE client_cache' = parked_cache /\ parked_cache' = client_cache
                /\ UNCHANGED responses
    /\ UNCHANGED <<env_set, upstream_request, pc, out, loop, locals, backend, propagated,
                   rpc_request, registry, signatures, tasks>>

Serving == dispatch_pc = "streaming"

\* Generate passes on what the step of generate() has yielded, ends when
\* generate() has returned, and is cancelled with it: the task that consumes
\* generate() is the one that runs Generate.
Forwarded ==
    /\ responses' = DispatchForward(responses, SubSeq(out', Len(out) + 1, Len(out')))
    /\ dispatch_pc' = IF pc' \in {"done", "cancelled"} THEN pc' ELSE dispatch_pc
    /\ UNCHANGED <<backend, invoked, propagated, parked_cache, rpc_request, registry_gets,
                   registry, signatures, tasks>>

\* An exception leaves the provider's generate(), wherever it stands before
\* the yield of a final delta (after which generate() only returns).
GenerateRaises ==
    /\ Serving
    /\ pc \in {"start", "retry_loop", "streaming", "yielded", "sleeping"}
    /\ \A i \in 1..Len(out) : ~out[i].is_final
    /\ pc' = "raised"
    /\ responses' = responses \o OnProviderException.deltas
    /\ propagated' = OnProviderException.propagates
    /\ dispatch_pc' = "done"
    /\ UNCHANGED <<process, call, out, loop, locals, backend, invoked, parked_cache,
                   rpc_request, registry_gets, registry, signatures, tasks>>

\* Generate is over; the next request arrives.
DispatchNextRequest ==
    /\ dispatch_pc \in {"done", "cancelled"}
    /\ rpc_request' \in Requests
    /\ request' = NoRequest
    /\ backend' \in Backends
    /\ ResetCall
    /\ dispatch_pc' = "lookup"
    /\ invoked' = <<>>
    /\ registry_gets' = <<>>
    /\ responses' = <<>>
    /\ propagated' = FALSE
    /\ UNCHANGED <<process, parked_cache, registry, signatures, tasks>>

DispatchNext ==
    \/ Lookup
    \/ Serving /\ Prepare /\ Forwarded
    \/ Serving /\ StartAttempt /\ Forwarded
    \/ Serving /\ Exhausted /\ Forwarded
    \/ Serving /\ GoogleReceiveChunk /\ Forwarded
    \/ Serving /\ LangChainReceiveChunk /\ Forwarded
    \/ Serving /\ Resume /\ Forwarded
    \/ Serving /\ EndOfStream /\ Forwarded
    \/ Serving /\ DeadlineExpires /\ Forwarded
    \/ Serving /\ DeadlineExpiresAtYield /\ Forwarded
    \/ Serving /\ UpstreamRaises /\ Forwarded
    \/ Serving /\ BackoffElapsed /\ Forwarded
    \/ Serving /\ Returns /\ Forwarded
    \/ GenerateRaises
    \/ DispatchNextRequest

DispatchSpec == DispatchInit /\ [][DispatchNext]_vars

\* -------------------------------------------------------------- the registry
\* A fourth specification: a ProviderRegistry on its own, as its tests use it,
\* with register() and get() called in any order.

\* The register() calls of a behaviour.
MaxRegistrations == 3

\* Backend names that differ in case, in length, in a "-" and in a digit.
BackendNames == {"B", "a", "a-b", "a1"}

\* What register() is called with: two provider instances, and None.
Instances == {Some("p1"), Some("p2"), None}

RegistryInit ==
    /\ InitWith({NoRequest}) /\ IsGoogle /\ ~env_set
    /\ NoDispatcher
    /\ NoRegistry
    /\ NoSignatures /\ NoTasks

\* registry.register(name, instance)
Register ==
    /\ Len(registered) < MaxRegistrations
    /\ \E name \in BackendNames, instance \in Instances :
          /\ _providers' = register(_providers, name, instance)
          /\ registered' = Append(registered, [name |-> name, instance |-> instance])
    /\ UNCHANGED <<process, call, pc, out, loop, locals, dispatcher, got, signatures, tasks>>

\* registry.get(name): what it returns or raises; get() assigns nothing.
RegistryGet ==
    /\ \E name \in BackendNames :
          got' = Some([name |-> name, outcome |-> registry_get(_providers, name)])
    /\ UNCHANGED <<process, call, pc, out, loop, locals, dispatcher, _providers, registered,
                   signatures, tasks>>

RegistryNext ==
    \/ Register
    \/ RegistryGet

RegistrySpec == RegistryInit /\ [][RegistryNext]_vars

\* ---------------------------------------------------------- the client cache
\* A fifth specification: requests that differ in what the clients are cached
\* by (provider, model, credential variable), served while the environment
\* changes between them.

KEY2_ENV == <<"K", "2">>

CacheRequests ==
    LET req(provider_name, model, api_key_env, tools) ==
            [Request(provider_name, <<Message("user", "Hi", <<>>, <<>>)>>, tools, NoNativeTools)
                EXCEPT !.llm_config.model = model, !.llm_config.api_key_env = api_key_env]
    IN  {req(OPENAI, "m", KEY_ENV, tools) : tools \in {<<>>, <<BAD_NAME>>}}
        \cup {req(OPENAI, "m2", KEY_ENV, <<>>), req(OPENAI, "m", KEY2_ENV, <<>>),
              req(VERTEXAI, "m", KEY_ENV, <<>>), req(<<"n", "o", "p", "e">>, "m", KEY_ENV, <<>>)}

CacheInit == InitWith(CacheRequests) /\ NoDispatcher /\ NoRegistry /\ NoSignatures /\ NoTasks

\* The credential variables are set or unset in os.environ between two
\* generate() calls.
EnvChanges ==
    /\ pc = "start"
    /\ env_set' = ~env_set
    /\ UNCHANGED <<provider, client_cache, call, pc, out, loop, locals>>

NextCacheRequest ==
    /\ pc = "done"
    /\ request' \in CacheRequests
    /\ ResetCall
    /\ UNCHANGED process

CacheNext ==
    \/ Prepare /\ Direct
    \/ StartAttempt /\ Direct
    \/ UpstreamRaises /\ Direct
    \/ Returns /\ Direct
    \/ EnvChanges /\ Direct
    \/ NextCacheRequest /\ Direct

CacheSpec == CacheInit /\ [][CacheNext]_vars

\* ----------------------------------------------- the reasoning-signature cache
\* A sixth specification: the thought-signature cache of a GoogleNativeProvider,
\* written and read for two execution ids while time passes.

THOUGHT_SIGNATURE_TTL == 3600

\* How often the clock advances in a behaviour.
MaxTicks == 3

\* The steps of the clock: a second, and a second less than the TTL.
ClockSteps == {1, THOUGHT_SIGNATURE_TTL - 1}

\* Optional[str] signatures.
Signatures == {None, Some("s1"), Some("s2")}

\* Mutant of _get_cached_thought_signature: the age is not looked at.
_get_cached_thought_signature_NoExpiry(sigs, execution_id, time) ==
    IF execution_id \notin DOMAIN sigs
    THEN [value |-> None, sigs |-> sigs]
    ELSE [value |-> sigs[execution_id].sig, sigs |-> sigs]

\* GoogleNativeProvider._get_cached_thought_signature: the value returned and
\* the dict afterwards.
_get_cached_thought_signature(sigs, execution_id, time) ==
    IF execution_id \notin DOMAIN sigs
    THEN [value |-> None, sigs |-> sigs]
    ELSE LET entry == sigs[execution_id]
         IN  IF time - entry.ts > THOUGHT_SIGNATURE_TTL
             THEN [value |-> None,
                   sigs |-> [k \in DOMAIN sigs \ {execution_id} |-> sigs[k]]]
             ELSE [value |-> entry.sig, sigs |-> sigs]

\* GoogleNativeProvider._cache_thought_signature: the dict afterwards.  The
\* method reads the clock twice: `time` is what time.time() returns for the
\* entry stored, `now` what it returns for the eviction.
_cache_thought_signature(sigs, execution_id, signature, time, now) ==
    LET stored == [k \in DOMAIN sigs \cup {execution_id} |->
                      IF k = execution_id THEN [sig |-> signature, ts |-> time] ELSE sigs[k]]
        expired == {k \in DOMAIN stored : now - stored[k].ts > THOUGHT_SIGNATURE_TTL}
    IN  [k \in DOMAIN stored \ expired |-> stored[k]]

SignatureInit ==
    /\ InitWith({NoRequest}) /\ IsGoogle /\ ~env_set
    /\ NoDispatcher
    /\ NoRegistry
    /\ NoSignatures /\ NoTasks

\* Time passes.
Tick ==
    /\ ticks < MaxTicks
    /\ ticks' = ticks + 1
    /\ \E d \in ClockSteps : clock' = clock + d
    /\ UNCHANGED <<process, call, pc, out, loop, locals, dispatcher, registry, tasks,
                   _thought_signatures, sig_read, last_written>>

\* How far the clock can move between the two reads of a write.
ClockMoves == {0} \cup (IF ticks < MaxTicks THEN ClockSteps ELSE {})

\* provider._cache_thought_signature(execution_id, signature): the entry is
\* stored with the time of the first read of the clock, and the eviction
\* compares with the second, which can be later.
WriteSignature ==
    /\ \E id \in ExecutionIds, signature \in Signatures, d \in ClockMoves :
          /\ _thought_signatures' = _cache_thought_signature(_thought_signatures, id, signature,
                                                             clock, clock + d)
          /\ last_written' = [last_written EXCEPT ![id] = Some([sig |-> signature, ts |-> clock])]
          /\ clock' = clock + d
          /\ ticks' = IF d = 0 THEN ticks ELSE ticks + 1
    /\ UNCHANGED <<process, call, pc, out, loop, locals, dispatcher, registry, tasks, sig_read>>

\* provider._get_cached_thought_signature(execution_id)
ReadSignature ==
    /\ \E id \in ExecutionIds :
          LET r == _get_cached_thought_signature(_thought_signatures, id, clock)
          IN  /\ _thought_signatures' = r.sigs
              /\ sig_read' = Some([id |-> id, at |-> clock, value |-> r.value])
    /\ UNCHANGED <<process, call, pc, out, loop, locals, dispatcher, registry, tasks,
                   clock, ticks, last_written>>

SignatureNext ==
    \/ Tick
    \/ WriteSignature
    \/ ReadSignature

SignatureSpec == SignatureInit /\ [][SignatureNext]_vars

\* ------------------------------------------------- concurrent generate() calls
\* A seventh specification: two generate() calls run on one provider instance
\* and interleave at their suspension points (awaiting a chunk, yielding a
\* delta, the backoff sleep).  What a call does between two suspension points
\* is one step; the provider's client cache is shared, the
\* rest of a call's state is in its task record.

TaskIds == {1, 2}

ConcurrentRequests ==
    { Request(OPENAI, <<Message("user", "Hi", <<>>, <<>>)>>, <<>>, NoNativeTools),
      [Request(OPENAI, <<Message("user", "Hi", <<>>, <<>>)>>, <<>>, NoNativeTools)
           EXCEPT !.llm_config.api_key_env = KEY2_ENV] }

ConcurrentGoogleChunks ==
    { GoogleChunk(None, <<TextPart("Hello!")>>, None),
      [candidates |-> <<>>, usage_metadata |-> Some(Usage(Some(10), Some(20), Some(30), Some(5)))] }

ConcurrentLangChainChunks ==
    { [AIMessageChunk EXCEPT !.tool_call_chunks = <<Fragment(Some(0), SERVER_READ_API, "c1", "{\"pa")>>],
      [AIMessageChunk EXCEPT !.tool_call_chunks = <<Fragment(Some(0), <<>>, "", "th\":\"/tmp\"}")>>,
                             !.usage_metadata = Some(UsageMetadata(0, 50, 50))] }

\* A generate() call that has not run yet.
NewTask(req) ==
    [request |-> req, pc |-> "start", client |-> None, attempt |-> 0, chunks_yielded |-> 0,
     out |-> <<>>, upstream_calls |-> 0, loc |-> FreshLocals, frame |-> <<>>]

\* A call on the shared provider (run), the same call on a provider of its own
\* (alone), whose upstream answers as the upstream of the first does, and the
\* chunks that upstream has delivered over all the call's attempts (fed).
Call(req) == [run |-> NewTask(req), alone |-> NewTask(req), fed |-> 0]

\* generate() up to the retry loop: the task and the cache afterwards.
TaskPrepare(prov, cache, key_set, task) ==
    LET r == IF prov = "google-native" THEN GooglePrepare(cache, task.request, key_set)
             ELSE LangChainPrepare(cache, task.request, key_set)
    IN  [cache |-> r.cache,
         task |-> IF IsNone(r.error)
                  THEN [task EXCEPT !.pc = "retry_loop", !.client = Some(r.upstream.client)]
                  ELSE [task EXCEPT !.pc = "failed", !.out = Append(@, Get(r.error))]]

\* The events a call can meet where it stands; the upstream delivers at most
\* MaxChunks chunks to a call.
TaskEvents(prov, task, fed) ==
    CASE task.pc = "retry_loop" ->
             IF LoopContinues(task.attempt) THEN {Event("attempt", None)}
             ELSE {Event("exhausted", None)}
      [] task.pc = "streaming" ->
             {Event("end", None), Event("timeout", None), Event("raises", None)}
             \cup (IF fed < MaxChunks
                   THEN {Event("chunk", c) : c \in IF prov = "google-native"
                                                   THEN ConcurrentGoogleChunks
                                                   ELSE ConcurrentLangChainChunks}
                   ELSE {})
      [] task.pc = "yielded" ->
             {Event("resume", None)}
             \cup (IF UnderDeadline(task.frame) THEN {Event("cancel", None)} ELSE {})
      [] task.pc = "sleeping" -> {Event("slept", None)}
      [] task.pc = "failed" -> {Event("returns", None)}
      [] OTHER -> {}

ConcurrentInit ==
    /\ InitWith({NoRequest})
    /\ NoDispatcher /\ NoRegistry /\ NoSignatures
    /\ tasks \in [TaskIds -> {Call(req) : req \in ConcurrentRequests}]
    /\ tasks[1].run.request.llm_config.api_key_env = KEY_ENV

\* A call runs up to the retry loop; no suspension point lies between the
\* lookup of the client and its insertion into the cache.
TaskPrepares(t) ==
    /\ tasks[t].run.pc = "start"
    /\ LET r == TaskPrepare(provider, client_cache, env_set, tasks[t].run)
           a == TaskPrepare(provider, <<>>, env_set, tasks[t].alone)
       IN  /\ client_cache' = r.cache
           /\ tasks' = [tasks EXCEPT ![t].run = r.task, ![t].alone = a.task]
    /\ UNCHANGED <<provider, env_set, call, pc, out, loop, locals, dispatcher, registry, signatures>>

\* A call runs from a suspension point to the next.
TaskRuns(t) ==
    /\ \E ev \in TaskEvents(provider, tasks[t].run, tasks[t].fed) :
          tasks' = [tasks EXCEPT ![t].run = GenerateStep(provider, @, ev).g,
                                 ![t].alone = GenerateStep(provider, @, ev).g,
                                 ![t].fed = IF ev.kind = "chunk" THEN @ + 1 ELSE @]
    /\ UNCHANGED <<process, call, pc, out, loop, locals, dispatcher, registry, signatures>>

ConcurrentNext ==
    \/ \E t \in TaskIds : TaskPrepares(t)
    \/ \E t \in TaskIds : TaskRuns(t)

ConcurrentSpec == ConcurrentInit /\ [][ConcurrentNext]_vars

\* --------------------------------------- requests of every shape: conversion
\* A second specification, for what generate() does with a request before the
\* retry loop and with the tool names it has declared: the requests range over
\* every tool name of a bounded length, in each place a request has a tool
\* name, and over every combination of caller tools and native-tool flags; the
\* upstream answers a request by calling a declared tool, or with nothing.

\* The longest tool name of these requests.
MaxNameLen == 4

Alphabet == {"a", "_", "."}

Names == UNION {[1..k -> Alphabet] : k \in 0..MaxNameLen}

\* A tool name that is rejected and whose text has "not set" in it.
NOT_SET_NAME == <<"n", "o", "t", " ", "s", "e", "t", "_", "_", "x">>

NativeTools == [google_search : BOOLEAN, code_execution : BOOLEAN, url_context : BOOLEAN]

ConversionRequests ==
    LET user == Message("user", "Hi", <<>>, <<>>)
    IN  {Request(OPENAI, <<user>>, <<name>>, NoNativeTools) : name \in Names \cup {NOT_SET_NAME}}
        \cup {Request(OPENAI, <<user, Message("assistant", "", <<name>>, <<>>)>>, <<>>, NoNativeTools) :
                 name \in Names \cup {NOT_SET_NAME}}
        \cup {Request(OPENAI, <<user, Message("assistant", "", <<>>, <<>>),
                                Message("tool", "{}", <<>>, name)>>, <<>>, NoNativeTools) :
                 name \in Names \cup {NOT_SET_NAME}}
        \cup {Request(OPENAI, <<user>>, tools, native) :
                 tools \in {<<>>, <<SERVER_READ>>, <<SERVER_READ, <<"a">>>>}, native \in NativeTools}

ConversionInit == InitWith(ConversionRequests) /\ NoDispatcher /\ NoRegistry /\ NoSignatures /\ NoTasks

\* The API names of the function declarations sent upstream.
DeclaredApiNames ==
    IF IsGoogle
    THEN LET step(acc, tool) == IF tool.kind = "function_declarations" THEN acc \o tool.names ELSE acc
         IN  FoldLeft(step, <<>>, upstream_request.tools)
    ELSE upstream_request.tools

\* The upstream answers with a call of one of the declared tools, in one chunk.
DeclaredToolCalled ==
    /\ consumed = 0
    /\ \E k \in 1..Len(DeclaredApiNames) :
          IF IsGoogle
          THEN GoogleReceive(GoogleChunk(None, <<FunctionCallPart(Some(DeclaredApiNames[k]), <<>>)>>, None))
          ELSE LangChainReceive([AIMessageChunk EXCEPT !.tool_call_chunks =
                                    <<Fragment(Some(0), DeclaredApiNames[k], "c1", "{}")>>])

NextConversionRequest ==
    /\ pc = "done"
    /\ request' \in ConversionRequests
    /\ ResetCall
    /\ UNCHANGED process

ConversionNext ==
    \/ Prepare /\ Direct
    \/ StartAttempt /\ Direct
    \/ DeclaredToolCalled /\ Direct
    \/ Resume /\ Direct
    \/ EndOfStream /\ Direct
    \/ Returns /\ Direct
    \/ NextConversionRequest /\ Direct

ConversionSpec == ConversionInit /\ [][ConversionNext]_vars

\* ------------------------------------------------------------------ claims

Last(s) == s[Len(s)]

ContentKinds == {"text", "thinking", "tool_call", "code_execution"}

ErrorCodes == {"credentials", "invalid_request", "invalid_backend", "provider_error",
               "partial_stream_error", "max_retries", "internal"}

Retryables == {"empty", "timeout"}

Indices(s, kinds) == {i \in 1..Len(s) : s[i].kind \in kinds}

ErrorCount(s) == Cardinality(Indices(s, {"error"}))

\* generate() has returned after an attempt that ended normally.
Succeeded == pc = "done" /\ attempts_log # <<>> /\ Last(attempts_log).outcome = "success"

\* generate() has yielded an error delta, and may have returned after it.
Failed == pc \in {"failed", "done"} /\ out # <<>> /\ Last(out).kind = "error"

\* An attempt ends in the step.
AttemptEnds == Len(attempts_log') = Len(attempts_log) + 1

\* generate() has handled an attempt that raised the retryable condition with
\* deltas already yielded.
FailedPartially ==
    /\ pc \in {"failed", "done"} /\ attempts_log # <<>>
    /\ Last(attempts_log).outcome \in Retryables
    /\ Last(attempts_log).yielded > 0

\* C1. Final-marker uniqueness: when generate() has returned, exactly one delta
\* of the outbound stream has is_final set and it is the last one; no delta
\* is ever emitted after one that has is_final set, and while generate() is in
\* its loop (awaiting the upstream, holding a delta of the attempt's loop that
\* the consumer has asked past, or asleep) no delta has it.
FinalMarkerUnique ==
    /\ \A i \in 1..(Len(out) - 1) : ~out[i].is_final
    /\ pc = "done" => out # <<>> /\ Last(out).is_final
    /\ pc \in {"start", "retry_loop", "streaming", "sleeping"} =>
          \A i \in 1..Len(out) : ~out[i].is_final

\* Two retried attempts (an empty stream, a timeout), then an exception after
\* partial output.
FinalMarkerUniqueWitness ==
    /\ pc = "done" /\ Len(attempts_log) = 3
    /\ attempts_log[1].outcome = "empty" /\ attempts_log[2].outcome = "timeout"
    /\ attempts_log[3].outcome = "exception" /\ attempts_log[3].yielded > 0

\* C2. Retry safety: the streaming adapter is invoked again only while no delta
\* has been yielded to the caller; every attempt but the last one of a request
\* yielded nothing.
RetrySafety ==
    /\ [][upstream_calls' = upstream_calls + 1
            => out = <<>> /\ \A i \in 1..Len(attempts_log) : attempts_log[i].yielded = 0]_vars
    /\ [](\A i \in 1..(Len(attempts_log) - 1) : attempts_log[i].yielded = 0)

\* The second attempt yielded deltas and then timed out; no third attempt.
RetrySafetyWitness ==
    /\ pc = "done" /\ Len(attempts_log) = 2 /\ upstream_calls = 2
    /\ attempts_log[2].outcome = "timeout" /\ attempts_log[2].yielded > 0

\* C3 as stated: after a retryable failure with partial output the stream ends
\* with the partial_stream_error delta and the upstream was invoked exactly once.
PartialStreamErrorSingleCall ==
    FailedPartially =>
        /\ Last(out) = ErrorDelta("partial_stream_error", FALSE)
        /\ upstream_calls = 1

\* C3, amended. After a retryable failure with partial output, generate() adds
\* exactly one delta, the final non-retryable partial_stream_error, to the
\* deltas already emitted and returns; the upstream was invoked once per
\* attempt made (attempt index + 1 times), and is not invoked for the error.
PartialStreamError ==
    /\ [](FailedPartially =>
            /\ Last(out) = ErrorDelta("partial_stream_error", FALSE)
            /\ ErrorCount(out) = 1
            /\ Len(out) = Last(attempts_log).yielded + 1
            /\ upstream_calls = attempt + 1
            /\ upstream_calls = Len(attempts_log))
    /\ [][(AttemptEnds /\ FailedPartially')
            => /\ out' = Append(out, ErrorDelta("partial_stream_error", FALSE))
               /\ out # <<>>
               /\ upstream_calls' = upstream_calls]_vars

\* The first attempt yields deltas and then times out (scenario S5).
PartialStreamErrorWitness ==
    /\ FailedPartially /\ Len(attempts_log) = 1 /\ upstream_calls = 1
    /\ Len(out) >= 2

\* C4. Empty-stream retry: an attempt that raises the retryable condition with
\* nothing yielded puts generate() to sleep with nothing emitted; while fewer
\* than 3 attempts were made the sleep is followed by a new attempt; and when an
\* attempt succeeds the outbound stream is exactly that attempt's deltas, ending
\* with the final marker, with no error delta.
EmptyStreamRetry ==
    /\ [][(AttemptEnds
           /\ Last(attempts_log').outcome \in Retryables /\ Last(attempts_log').yielded = 0)
            => pc' = "sleeping" /\ out' = <<>>]_vars
    /\ (pc = "sleeping" /\ attempt + 1 < MAX_RETRIES)
          ~> (pc = "streaming" /\ upstream_calls > 1 /\ upstream_calls = attempt + 1)
    /\ [](Succeeded =>
            /\ Len(out) = chunks_yielded
            /\ ErrorCount(out) = 0
            /\ Last(out) = FinalChunk
            /\ upstream_calls = Len(attempts_log))

\* Scenario S4: an empty first attempt, then text "ok".
EmptyStreamRetryWitness ==
    /\ Succeeded /\ Len(attempts_log) = 2 /\ attempts_log[1].outcome = "empty"
    /\ upstream_calls = 2 /\ sleeps = <<1>>
    /\ out = <<TextDelta("ok"), FinalChunk>>

\* C5. No request makes more than MAX_RETRIES = 3 upstream attempts.
AttemptsBounded == upstream_calls \in 0..3 /\ upstream_calls <= MAX_RETRIES

AttemptsBoundedWitness == pc = "done" /\ upstream_calls = 3

\* C6. When all 3 attempts ended with the retryable condition and none yielded a
\* delta, the outbound stream is the single final, non-retryable max_retries
\* error delta.
MaxRetriesError ==
    (/\ pc = "done" /\ Len(attempts_log) = 3
     /\ \A i \in 1..3 : attempts_log[i].outcome \in Retryables /\ attempts_log[i].yielded = 0)
      => out = <<ErrorDelta("max_retries", FALSE)>>

MaxRetriesErrorWitness ==
    /\ pc = "done" /\ Len(attempts_log) = 3 /\ upstream_calls = 3
    /\ attempts_log[1].outcome = "timeout" /\ attempts_log[2].outcome = "empty"
    /\ attempts_log[3].outcome = "timeout"
    /\ \A i \in 1..3 : attempts_log[i].yielded = 0

\* C7. An attempt that raises a non-retryable exception, with or without deltas
\* already emitted, makes generate() add exactly one error delta (provider_error,
\* not retryable, final) to what was emitted and return: no further attempt.
NonRetryableException ==
    /\ [][(AttemptEnds /\ Last(attempts_log').outcome = "exception")
            => /\ pc' = "failed"
               /\ Len(out') > Len(out)
               /\ SubSeq(out', 1, Len(out)) = out
               /\ Last(out') = ErrorDelta("provider_error", FALSE)
               /\ ErrorCount(out') = 1
               /\ upstream_calls' = upstream_calls]_vars
    /\ []((attempts_log # <<>> /\ Last(attempts_log).outcome = "exception")
            => Failed /\ upstream_calls = Len(attempts_log))

\* The second attempt raises after it has yielded deltas.
NonRetryableExceptionWitness ==
    /\ pc = "done" /\ Len(attempts_log) = 2
    /\ attempts_log[2].outcome = "exception" /\ attempts_log[2].yielded > 0

\* C8. Every error delta emitted is final, not retryable and carries a code of
\* the taxonomy; a request emits at most one error delta.
ErrorDeltasWellFormed ==
    /\ \A i \in Indices(out, {"error"}) :
          /\ out[i].is_final
          /\ ~out[i].body.retryable
          /\ out[i].body.code \in ErrorCodes
    /\ ErrorCount(out) <= 1

ErrorDeltasWellFormedWitness ==
    /\ pc = "done" /\ Len(out) >= 3
    /\ Last(out).kind = "error" /\ Last(out).body.code = "provider_error"

\* C9. Usage placement: on a successful stream every usage delta comes after
\* all content deltas, of which there is at least one, and before the final
\* marker.
UsagePlacement ==
    Succeeded =>
        \A i \in Indices(out, {"usage"}) :
            /\ i < Len(out)
            /\ Last(out).kind = "final"
            /\ \A j \in Indices(out, ContentKinds) : j < i
            /\ Indices(out, ContentKinds) # {}

UsagePlacementWitness ==
    /\ Succeeded /\ ~IsGoogle
    /\ Indices(out, {"usage"}) # {}
    /\ Indices(out, {"tool_call"}) # {}
    /\ Indices(out, {"text"}) # {}

\* At most one grounding and one usage delta, after every content delta and
\* before the final marker, the grounding before the usage.
MetadataAfterContent ==
    /\ Last(out) = FinalChunk
    /\ Cardinality(Indices(out, {"grounding"})) <= 1
    /\ Cardinality(Indices(out, {"usage"})) <= 1
    /\ \A i \in Indices(out, {"grounding", "usage"}) :
          i < Len(out) /\ \A j \in Indices(out, ContentKinds) : j < i
    /\ \A g \in Indices(out, {"grounding"}) : \A u \in Indices(out, {"usage"}) : g < u

\* No text, thinking or code_execution delta follows a tool_call delta.
ToolCallsAfterOtherContent ==
    \A t \in Indices(out, {"tool_call"}) :
        \A j \in Indices(out, {"text", "thinking", "code_execution"}) : j < t

\* The tool_call deltas are those of the accumulated indices, in ascending
\* order of the index: the k-th one carries the arguments and the id of the
\* k-th smallest index.
ToolCallsByAscendingIndex ==
    LET IsToolCall(d) == d.kind = "tool_call"
        calls == SelectSeq(out, IsToolCall)
        Rank(i) == Cardinality({j \in DOMAIN pending_tool_calls : j = i \/ Get(j) <= Get(i)})
    IN  /\ Len(calls) = Cardinality(DOMAIN pending_tool_calls)
        /\ \A i \in DOMAIN pending_tool_calls :
              /\ calls[Rank(i)].body.arguments =
                    (IF pending_tool_calls[i].args = "" THEN "{}" ELSE pending_tool_calls[i].args)
              /\ pending_tool_calls[i].id # "" =>
                    calls[Rank(i)].body.call_id = pending_tool_calls[i].id

\* C10 as stated: on every successful stream the tool_call deltas are followed
\* by no text, thinking or code_execution delta, and then come at most one
\* grounding delta, at most one usage delta and the final marker.
EndOfStreamOrderEveryAdapter ==
    Succeeded => MetadataAfterContent /\ ToolCallsAfterOtherContent

\* C10, amended. On a successful stream of either adapter: at most one grounding
\* delta, then at most one usage delta, then the final marker, all after every
\* content delta.  The LangChain adapter emits its tool_call deltas at the end of
\* the upstream stream, one per accumulated index in ascending index order, after
\* every text and thinking delta, and emits no grounding delta.  (The Google
\* adapter emits a tool_call delta when its function_call part arrives.)
EndOfStreamOrder ==
    Succeeded =>
        /\ MetadataAfterContent
        /\ ~IsGoogle => /\ ToolCallsAfterOtherContent
                        /\ ToolCallsByAscendingIndex
                        /\ Indices(out, {"grounding"}) = {}

\* A LangChain stream whose fragments arrive for index 1 and then for index 0.
EndOfStreamOrderWitness ==
    /\ Succeeded /\ ~IsGoogle
    /\ DOMAIN pending_tool_calls = {Some(0), Some(1)}
    /\ Len(out) = 3
    /\ out[1].body.call_id = "c1" /\ out[2].body.arguments = "{}"

\* The tool-call fragments the running LangChain attempt has received, in the
\* order of their arrival.
FragmentsReceived ==
    LET step(acc, chunk) == IF chunk.is_ai THEN acc \o chunk.tool_call_chunks ELSE acc
    IN  FoldLeft(step, <<>>, received)

FragmentIndices == {FragmentsReceived[k].index : k \in 1..Len(FragmentsReceived)}

\* The args of the fragments of index i, concatenated in arrival order.
RECURSIVE ConcatArgs(_, _)
ConcatArgs(frags, i) ==
    IF frags = <<>> THEN ""
    ELSE (IF Head(frags).index = i THEN Head(frags).args ELSE "") \o ConcatArgs(Tail(frags), i)

ToolCalls(s) == LET IsToolCall(d) == d.kind = "tool_call" IN SelectSeq(s, IsToolCall)

\* The number of received fragment indices up to i: the place of index i's
\* tool_call among the tool_call deltas.
Rank(i) == Cardinality({j \in FragmentIndices : j = i \/ Get(j) <= Get(i)})

\* The LangChain adapter yields no tool_call delta before the upstream stream
\* has ended normally: a tool_call delta is in the outbound stream only when
\* the adapter is in its epilogue or has returned from it.
NothingMidAssembly ==
    (~IsGoogle /\ ToolCalls(out) # <<>>) =>
        \/ pc = "yielded" /\ ~UnderDeadline(frame)
        \/ Succeeded

\* The upstream stream of a LangChain attempt that has received tool-call
\* fragments ends, and the adapter goes on to deliver a tool_call delta.
ToolCallsFollowTheEnd ==
    (EndOfStream /\ ~IsGoogle /\ FragmentIndices # {}) =>
        (pc' = "yielded" /\ Last(out').kind = "tool_call")

\* C11 as stated: nothing is emitted mid-assembly; when the upstream stream
\* ends, whatever the fragments it delivered, the adapter delivers the
\* accumulated tool calls; and once it has delivered them there is exactly one
\* tool_call delta per distinct fragment index, whose arguments are the
\* concatenation of the args of that index's fragments.
ToolCallAtomicityAsStated ==
    /\ []NothingMidAssembly
    /\ [][ToolCallsFollowTheEnd]_vars
    /\ []((~IsGoogle /\ Succeeded) =>
            /\ Len(ToolCalls(out)) = Cardinality(FragmentIndices)
            /\ \A i \in FragmentIndices :
                  ToolCalls(out)[Rank(i)].body.arguments = ConcatArgs(FragmentsReceived, i))

\* Syntactic validity of a JSON text (what json.loads accepts), for texts made
\* of objects, arrays, strings, integers and the three literals, separated by
\* spaces.  A parser yields [ok, rest]: whether a value was read, and the text
\* after it.
JsonFail == [ok |-> FALSE, rest |-> ""]

RECURSIVE SkipSpaces(_)
SkipSpaces(s) == IF s # "" /\ Head(s) = " " THEN SkipSpaces(Tail(s)) ELSE s

\* The text after an opening quote, up to the closing one.
RECURSIVE ParseString(_)
ParseString(s) ==
    IF s = "" THEN JsonFail
    ELSE IF Head(s) = "\"" THEN [ok |-> TRUE, rest |-> Tail(s)]
    ELSE IF Head(s) = "\\"
    THEN IF Len(s) >= 2 THEN ParseString(Tail(Tail(s))) ELSE JsonFail
    ELSE ParseString(Tail(s))

Digits == {"0", "1", "2", "3", "4", "5", "6", "7", "8", "9"}

RECURSIVE SkipDigits(_)
SkipDigits(s) == IF s # "" /\ Head(s) \in Digits THEN SkipDigits(Tail(s)) ELSE s

StartsWith(s, prefix) == Len(s) >= Len(prefix) /\ SubSeq(s, 1, Len(prefix)) = prefix

RECURSIVE ParseValue(_)
RECURSIVE ParseMembers(_)
RECURSIVE ParseElements(_)

\* The members of an object, after "{" or ",": "key": value, then "," or "}".
ParseMembers(s) ==
    LET s1 == SkipSpaces(s)
    IN  IF s1 = "" \/ Head(s1) # "\"" THEN JsonFail
        ELSE LET key == ParseString(Tail(s1))
                 s2 == SkipSpaces(key.rest)
             IN  IF ~key.ok \/ s2 = "" \/ Head(s2) # ":" THEN JsonFail
                 ELSE LET value == ParseValue(Tail(s2))
                          s3 == SkipSpaces(value.rest)
                      IN  IF ~value.ok \/ s3 = "" THEN JsonFail
                          ELSE IF Head(s3) = "}" THEN [ok |-> TRUE, rest |-> Tail(s3)]
                          ELSE IF Head(s3) = "," THEN ParseMembers(Tail(s3))
                          ELSE JsonFail

\* The elements of an array, after "[" or ",".
ParseElements(s) ==
    LET value == ParseValue(s)
        s1 == SkipSpaces(value.rest)
    IN  IF ~value.ok \/ s1 = "" THEN JsonFail
        ELSE IF Head(s1) = "]" THEN [ok |-> TRUE, rest |-> Tail(s1)]
        ELSE IF Head(s1) = "," THEN ParseElements(Tail(s1))
        ELSE JsonFail

ParseValue(s) ==
    LET s1 == SkipSpaces(s)
    IN  IF s1 = "" THEN JsonFail
        ELSE IF Head(s1) = "{"
        THEN LET s2 == SkipSpaces(Tail(s1))
             IN  IF s2 # "" /\ Head(s2) = "}" THEN [ok |-> TRUE, rest |-> Tail(s2)]
                 ELSE ParseMembers(s2)
        ELSE IF Head(s1) = "["
        THEN LET s2 == SkipSpaces(Tail(s1))
             IN  IF s2 # "" /\ Head(s2) = "]" THEN [ok |-> TRUE, rest |-> Tail(s2)]
                 ELSE ParseElements(s2)
        ELSE IF Head(s1) = "\"" THEN ParseString(Tail(s1))
        ELSE IF Head(s1) \in Digits THEN [ok |-> TRUE, rest |-> SkipDigits(s1)]
        ELSE IF StartsWith(s1, "true") THEN [ok |-> TRUE, rest |-> SubSeq(s1, 5, Len(s1))]
        ELSE IF StartsWith(s1, "false") THEN [ok |-> TRUE, rest |-> SubSeq(s1, 6, Len(s1))]
        ELSE IF StartsWith(s1, "null") THEN [ok |-> TRUE, rest |-> SubSeq(s1, 5, Len(s1))]
        ELSE JsonFail

JsonValid(s) == LET r == ParseValue(s) IN r.ok /\ SkipSpaces(r.rest) = ""

\* C12. Every tool_call delta delivered to the caller has a non-empty name and
\* an arguments string that is syntactically valid JSON.
ToolCallsWellFormed ==
    \A i \in Indices(out, {"tool_call"}) :
        /\ out[i].body.name # <<>>
        /\ JsonValid(out[i].body.arguments)

\* The upstream stream of the running attempt ends in this step without an
\* exception: the attempt is logged as a success or as an empty response.
StreamEnds ==
    /\ AttemptEnds
    /\ Last(attempts_log').outcome \in {"empty", "success"}

\* C13. When the upstream stream ends and the attempt has produced no
\* content-bearing delta, the adapter raises the retryable "empty response"
\* condition and the attempt has emitted nothing: no buffered usage, no
\* grounding, no final marker; generate() goes to its backoff sleep.  When
\* the attempt has produced content, the stream ends with the final marker.
EmptyResponse ==
    [][StreamEnds =>
          /\ (Indices(out', ContentKinds) = {}) <=> (Last(attempts_log').outcome = "empty")
          /\ Last(attempts_log').outcome = "empty" =>
                /\ out' = <<>> /\ out = <<>>
                /\ chunks_yielded' = 0
                /\ pc' = "sleeping"
          /\ Last(attempts_log').outcome = "success" => Last(out') = FinalChunk]_vars

\* A Google stream of a usage-only chunk and a chunk with grounding metadata
\* and no parts has ended: nothing was emitted.
EmptyResponseWitness ==
    /\ pc = "sleeping" /\ IsGoogle /\ Last(attempts_log).outcome = "empty"
    /\ ~IsNone(last_usage) /\ ~IsNone(last_grounding_metadata)
    /\ consumed = 2 /\ out = <<>>

\* C14. Codec round-trip and bijection: for every canonical name that
\* tool_name_to_api accepts (no segment has "__" in it), decoding the API name
\* gives the name back, and no other accepted name has the same API name.
\* Stated of the LangChain adapter, which uses tool_names.py: of the API names
\* it has declared upstream, and of the names of the tool_call deltas it
\* delivers when the upstream calls a declared tool.
CodecRoundTrip ==
    ~IsGoogle =>
        /\ \A k \in 1..Len(DeclaredApiNames) :
              /\ tool_name_from_api(DeclaredApiNames[k]) = request.tools[k]
              /\ \A other \in Names :
                    (other # request.tools[k] /\ ~tool_name_to_api(other).raised)
                        => tool_name_to_api(other).value # DeclaredApiNames[k]
        /\ Succeeded =>
              \A i \in Indices(out, {"tool_call"}) :
                  \E k \in 1..Len(request.tools) : out[i].body.name = request.tools[k]

\* The tool names a request carries: in its tool definitions, in the tool
\* calls of its assistant messages and in its tool results.
RequestToolNames ==
    {request.tools[k] : k \in 1..Len(request.tools)}
    \cup UNION {{request.messages[i].tool_calls[k] : k \in 1..Len(request.messages[i].tool_calls)} :
                  i \in {j \in 1..Len(request.messages) : request.messages[j].role = "assistant"}}
    \cup {request.messages[i].tool_name :
             i \in {j \in 1..Len(request.messages) : request.messages[j].role = "tool"}}

\* Some dot-separated segment of the name has "__" in it.
DoubleUnderscoreInSegment(name) ==
    \E i \in 1..Len(Split(name, <<>>)) : Contains(<<"_", "_">>, Split(name, <<>>)[i])

\* The provider has a client (a model) for the request: cached, or created
\* from the credential variable.
ClientAvailable == client_cache # <<>>

\* C15. Encoding a tool name with "__" in a segment fails; a request that
\* carries such a name (and for which the provider has a client) ends with the
\* single final error delta invalid_request, and the upstream is never called.
InvalidToolNameRejected ==
    /\ \A name \in RequestToolNames :
          DoubleUnderscoreInSegment(name) =>
              tool_name_to_api(name).raised /\ tool_name_to_native(name).raised
    /\ (\E name \in RequestToolNames : DoubleUnderscoreInSegment(name)) =>
          /\ upstream_calls = 0
          /\ pc \in {"start", "failed", "done"}
          /\ (pc \in {"failed", "done"} /\ ClientAvailable) =>
                out = <<ErrorDelta("invalid_request", FALSE)>>

\* generate() has built the request it sends upstream.
UpstreamRequestBuilt == upstream_request # NoUpstreamRequest

BuiltInKinds == {"google_search", "code_execution", "url_context"}

\* The built-in tools of the upstream request.
BuiltInsSent ==
    IF IsGoogle
    THEN {upstream_request.tools[k].kind : k \in 1..Len(upstream_request.tools)} \cap BuiltInKinds
    ELSE {}

\* The built-in tools the request's flags ask for.
BuiltInsAsked ==
    {kind \in BuiltInKinds : request.llm_config.native_tools[kind]}

\* C16. Mutual exclusivity: with at least one caller tool the upstream request
\* has the caller's function declarations, one per tool, and no built-in tool,
\* whatever the native-tool flags; built-in tools are sent only when the
\* caller's tool list is empty (the Google adapter then sends those asked for).
MutualExclusivity ==
    UpstreamRequestBuilt =>
        /\ request.tools # <<>> =>
              /\ BuiltInsSent = {}
              /\ Len(DeclaredApiNames) = Len(request.tools)
              /\ IsGoogle => Len(upstream_request.tools) = 1
        /\ BuiltInsSent # {} => request.tools = <<>>
        /\ request.tools = <<>> =>
              /\ DeclaredApiNames = <<>>
              /\ IsGoogle => /\ BuiltInsSent = BuiltInsAsked
                              /\ Len(upstream_request.tools) = Cardinality(BuiltInsAsked)

\* The Google adapter has built the request for two caller tools with all
\* three native-tool flags set.
MutualExclusivityWitness ==
    /\ IsGoogle /\ UpstreamRequestBuilt
    /\ Len(request.tools) = 2 /\ BuiltInsAsked = BuiltInKinds
    /\ Len(upstream_request.tools) = 1

\* The indices of the request's messages that have the given role.
MessagesWithRole(role) == {i \in 1..Len(request.messages) : request.messages[i].role = role}

\* C17. In both adapters a request with a second system message is rejected:
\* no upstream call is made and (the provider having a client) the outbound
\* stream is the single final error delta invalid_request.
DuplicateSystemRejected ==
    Cardinality(MessagesWithRole("system")) >= 2 =>
        /\ upstream_calls = 0
        /\ pc \in {"start", "failed", "done"}
        /\ (pc \in {"failed", "done"} /\ ClientAvailable) =>
              out = <<ErrorDelta("invalid_request", FALSE)>>

\* generate() gets past its first step for the request: the Google adapter has
\* a client for it, the LangChain adapter a model with the tools bound.
ClientObtained ==
    IF IsGoogle
    THEN ~get_client(client_cache, request.llm_config.api_key_env, env_set).raised
    ELSE ~get_or_create_model(client_cache, request.llm_config, request.tools, env_set).raised

UnknownRole ==
    \E i \in 1..Len(request.messages) :
        request.messages[i].role \notin {"system", "user", "assistant", "tool"}

\* C18 as stated: a request with a message of an unknown role ends with the
\* single final error delta invalid_request, without upstream call or sleep.
UnknownRoleAlwaysInvalidRequest ==
    UnknownRole =>
        /\ upstream_calls = 0 /\ sleeps = <<>>
        /\ pc \in {"start", "failed", "done"}
        /\ pc \in {"failed", "done"} => out = <<ErrorDelta("invalid_request", FALSE)>>

\* C18, amended.  A request with a message of an unknown role makes no
\* upstream call and no sleep and ends with a single final, non-retryable error
\* delta; its code is invalid_request whenever generate() gets as far as
\* converting the messages (the client or model was obtained), and is that of
\* the earlier failure otherwise.
UnknownRoleRejected ==
    UnknownRole =>
        /\ upstream_calls = 0 /\ sleeps = <<>>
        /\ pc \in {"start", "failed", "done"}
        /\ pc \in {"failed", "done"} =>
              /\ Len(out) = 1 /\ out[1].kind = "error"
              /\ out[1].is_final /\ ~out[1].body.retryable
              /\ ClientObtained => out = <<ErrorDelta("invalid_request", FALSE)>>

\* The Google adapter, with a client, has rejected the message of role
\* "function".
UnknownRoleRejectedWitness ==
    /\ UnknownRole /\ pc = "done" /\ IsGoogle /\ ClientObtained
    /\ Len(request.messages) = 2 /\ request.messages[2].role = "function"
    /\ out = <<ErrorDelta("invalid_request", FALSE)>>

\* C19.  With a backend name that is not in the registry, Generate calls no
\* provider (no generate(), no upstream call) and ends after exactly one delta,
\* the final, non-retryable error invalid_backend.
UnknownBackendRejected ==
    BackendName(backend) \notin DOMAIN Registry =>
        /\ invoked = <<>> /\ pc = "start" /\ upstream_calls = 0
        /\ dispatch_pc \in {"lookup", "done"}
        /\ dispatch_pc = "done" => responses = <<ErrorDelta("invalid_backend", FALSE)>>

UnknownBackendRejectedWitness ==
    /\ backend = "nope" /\ dispatch_pc = "done"
    /\ responses = <<ErrorDelta("invalid_backend", FALSE)>>
    /\ client_cache # <<>>

\* C20.  When an exception has left the provider's generate(), Generate has
\* ended without letting it through, and what it yielded is what generate()
\* had yielded followed by one final, non-retryable error delta internal, the
\* only error delta of the stream.
ProviderExceptionCaught ==
    pc = "raised" =>
        /\ dispatch_pc = "done" /\ ~propagated
        /\ responses = out \o <<ErrorDelta("internal", FALSE)>>
        /\ ErrorCount(responses) = 1
        /\ Last(responses).is_final /\ ~Last(responses).body.retryable

\* The exception came after a text delta of the second attempt.
ProviderExceptionCaughtWitness ==
    /\ pc = "raised" /\ attempt = 1 /\ Len(out) = 1 /\ out[1].kind = "text"
    /\ responses = <<out[1], ErrorDelta("internal", FALSE)>>

\* C21.  Once Generate is past the lookup it has asked the registry exactly
\* once, for the backend name of the request or for "google-native" when that
\* is empty; the provider it calls is the one registered under that name, and
\* the request generate() runs on is the request Generate received.
RegistryLookedUpOnce ==
    /\ dispatch_pc = "lookup" => registry_gets = <<>> /\ invoked = <<>>
    /\ dispatch_pc \in {"streaming", "done", "cancelled"} =>
          /\ registry_gets = <<IF backend = "" THEN "google-native" ELSE backend>>
          /\ Len(invoked) <= 1
          /\ invoked # <<>> =>
                /\ invoked = <<Get(Registry[registry_gets[1]])>>
                /\ provider = invoked[1]
                /\ request = rpc_request

\* A request with tools and no backend name has been served by the default
\* provider.
RegistryLookedUpOnceWitness ==
    /\ backend = "" /\ dispatch_pc = "done" /\ pc = "done"
    /\ registry_gets = <<"google-native">> /\ invoked = <<"google-native">>
    /\ rpc_request.tools # <<>> /\ request = rpc_request
    /\ upstream_calls >= 1

\* C22.  On a registry hit, as long as no exception has left generate(), the
\* deltas Generate has yielded are exactly the deltas generate() has yielded,
\* in the same order, at every moment of the stream.
ForwardedInOrder ==
    (invoked # <<>> /\ pc # "raised") => responses = out

\* A stream of three deltas or more has been passed on whole.
ForwardedInOrderWitness ==
    /\ invoked # <<>> /\ dispatch_pc = "done" /\ pc = "done"
    /\ Len(out) >= 3 /\ out[1] # out[2] /\ responses = out

\* The backend names of the registry's behaviours as Python sorts them.
PythonOrder == <<"B", "a", "a-b", "a1">>

\* The registered names as the message of get() is to list them.
AvailableBackends ==
    LET IsRegistered(n) == n \in DOMAIN _providers
        names == SelectSeq(PythonOrder, IsRegistered)
        Listed[k \in 0..Len(names)] ==
            IF k = 0 THEN ""
            ELSE IF k = 1 THEN names[1]
            ELSE Listed[k - 1] \o ", " \o names[k]
    IN  IF names = <<>> THEN "(none)" ELSE Listed[Len(names)]

\* The registry holds no provider for the name: no entry, or the entry None.
NoProviderFor(name) == name \notin DOMAIN _providers \/ IsNone(_providers[name])

\* C23.  Every get() of a name that has no provider raises ValueError with the
\* message that quotes the name and lists the registered names in sorted order,
\* "(none)" for an empty registry; and no get() changes the registry.
UnknownNameRaises ==
    [][got' # got =>
            /\ _providers' = _providers
            /\ NoProviderFor(Get(got').name) =>
                  Get(got').outcome =
                      Raise("ValueError",
                            "No provider registered for backend '" \o Get(got').name
                            \o "'. Available backends: " \o AvailableBackends)]_vars

\* get("a") has failed on a registry that holds providers for "a1", "a-b"
\* and "B".
UnknownNameRaisesWitness ==
    /\ DOMAIN _providers = {"a1", "a-b", "B"}
    /\ \A n \in DOMAIN _providers : ~IsNone(_providers[n])
    /\ got = Some([name |-> "a",
                   outcome |-> Raise("ValueError",
                                     "No provider registered for backend 'a'. Available backends: B, a-b, a1")])

\* The register() calls made for `name`, as places in the history.
RegistrationsOf(name) == {k \in 1..Len(registered) : registered[k].name = name}

\* What the latest register() call for `name` has registered.
LastRegistered(name) ==
    registered[CHOOSE k \in RegistrationsOf(name) : \A j \in RegistrationsOf(name) : j <= k].instance

\* C24.  Every get() of a name registered before returns the provider of the
\* latest register() call for that name (and raises when that call registered
\* None, which is no provider), and a register() call for one name changes
\* what the registry holds for no other name.
RegisterOverwrites ==
    [][/\ (got' # got /\ RegistrationsOf(Get(got').name) # {}) =>
              IF IsNone(LastRegistered(Get(got').name))
              THEN Get(got').outcome.raised
              ELSE Get(got').outcome = Ok(Get(LastRegistered(Get(got').name)))
       /\ registered' # registered =>
              \A m \in BackendNames \ {Last(registered').name} :
                  /\ m \in DOMAIN _providers' <=> m \in DOMAIN _providers
                  /\ m \in DOMAIN _providers => _providers'[m] = _providers[m]]_vars

\* "a" was registered twice, with another name in between, and get("a") has
\* returned the second instance.
RegisterOverwritesWitness ==
    /\ registered = <<[name |-> "a", instance |-> Some("p1")],
                      [name |-> "B", instance |-> Some("p1")],
                      [name |-> "a", instance |-> Some("p2")]>>
    /\ got = Some([name |-> "a", outcome |-> Ok("p2")])

\* The key the provider caches the client of the request by.
CacheKey ==
    IF IsGoogle THEN request.llm_config.api_key_env
    ELSE <<request.llm_config.provider, request.llm_config.model, request.llm_config.api_key_env>>

\* C25.  No step replaces or removes an entry of the client cache; and a
\* generate() call whose key is in the cache leaves the cache as it is, fails
\* with no credentials error whatever the environment holds, and, when it goes
\* on to the upstream, does so with the cached instance.
ClientCacheStable ==
    [][/\ \A k \in DOMAIN client_cache :
              k \in DOMAIN client_cache' /\ client_cache'[k] = client_cache[k]
       /\ (pc = "start" /\ pc' # "start" /\ CacheKey \in DOMAIN client_cache) =>
              /\ client_cache' = client_cache
              /\ pc' = "retry_loop" => upstream_request'.client = client_cache[CacheKey]
              /\ pc' = "failed" => out' # <<ErrorDelta("credentials", FALSE)>>]_vars

\* With two clients cached and the credential variables unset, a request is
\* on its way to the upstream with the client cached for its key.
ClientCacheStableWitness ==
    /\ ~env_set /\ pc = "retry_loop" /\ request.llm_config.provider = OPENAI
    /\ Cardinality(DOMAIN client_cache) >= 2
    /\ upstream_request.client = client_cache[CacheKey]

\* generate() starts on a request whose client is not cached, with the
\* credential variable unset.
MissWithoutCredential ==
    pc = "start" /\ pc' # "start" /\ CacheKey \notin DOMAIN client_cache /\ ~env_set

\* generate() has yielded the single error delta credentials, with no cache
\* entry inserted, no upstream call and no backoff.
EndsWithCredentialsError ==
    /\ pc' = "failed" /\ out' = <<ErrorDelta("credentials", FALSE)>>
    /\ client_cache' = client_cache
    /\ upstream_calls' = 0 /\ attempt' = 0 /\ sleeps' = <<>>

\* C26 as stated: every generate() call on a cache miss with the credential
\* variable unset ends with the credentials error.
CredentialsErrorOnEveryMiss ==
    [][MissWithoutCredential => EndsWithCredentialsError]_vars

\* C26, amended.  A generate() call on a cache miss with the credential
\* variable unset ends with the single credentials error, no cache entry, no
\* upstream call and no retry, when the provider needs the variable: the Google
\* adapter always, the LangChain adapter for its supported providers other
\* than vertexai.
CredentialsErrorOnMiss ==
    [][(/\ MissWithoutCredential
        /\ IsGoogle \/ request.llm_config.provider \in ProviderType \ {VERTEXAI})
           => EndsWithCredentialsError]_vars

\* With a client cached for another key, a request has failed for its missing
\* credential.
CredentialsErrorOnMissWitness ==
    /\ pc = "done" /\ out = <<ErrorDelta("credentials", FALSE)>>
    /\ ~env_set /\ client_cache # <<>> /\ CacheKey \notin DOMAIN client_cache
    /\ ~IsGoogle /\ request.tools # <<>>

\* The non-empty assistant-text (kind "text") or reasoning (kind "thinking")
\* parts of an upstream chunk, in order.  A Gemini chunk carries them as the
\* parts of its first candidate; a LangChain chunk as content blocks, or as
\* plain or list content when it has no content blocks, and its reasoning
\* summary in additional_kwargs.
GooglePartsOf(chunk, kind) ==
    IF chunk.candidates = <<>> \/ IsNone(chunk.candidates[1].content) THEN <<>>
    ELSE LET parts == Get(chunk.candidates[1].content).parts
             IsPlain(part) == /\ IsNone(part.function_call) /\ IsNone(part.executable_code)
                              /\ IsNone(part.code_execution_result)
             Piece(part) == IF part.text # "" /\ (IF kind = "thinking" THEN part.thought
                                                   ELSE ~part.thought /\ IsPlain(part))
                            THEN <<part.text>> ELSE <<>>
             Pieces[k \in 0..Len(parts)] == IF k = 0 THEN <<>> ELSE Pieces[k - 1] \o Piece(parts[k])
         IN  Pieces[Len(parts)]

LangChainPartsOf(chunk, kind) ==
    IF ~chunk.is_ai THEN <<>>
    ELSE LET blocks == chunk.content_blocks
             list == chunk.content.list
             OfBlock(b) == IF kind = "text"
                           THEN IF b.type = "text" /\ b.text # "" THEN <<b.text>> ELSE <<>>
                           ELSE IF b.type = "reasoning" /\ b.reasoning # "" THEN <<b.reasoning>>
                           ELSE IF b.type = "non_standard" /\ b.value.type = "thinking"
                                   /\ b.value.thinking # ""
                           THEN <<b.value.thinking>> ELSE <<>>
             OfPart(q) == IF q.type = kind
                          THEN LET t == IF kind = "text" THEN q.text ELSE q.thinking
                               IN  IF t # "" THEN <<t>> ELSE <<>>
                          ELSE <<>>
             Blocks[k \in 0..Len(blocks)] == IF k = 0 THEN <<>> ELSE Blocks[k - 1] \o OfBlock(blocks[k])
             Listed[k \in 0..Len(list)] == IF k = 0 THEN <<>> ELSE Listed[k - 1] \o OfPart(list[k])
             summary == IF kind = "thinking" /\ chunk.reasoning_summary_chunk # ""
                        THEN <<chunk.reasoning_summary_chunk>> ELSE <<>>
             content == IF blocks # <<>> THEN <<>>
                        ELSE IF chunk.content.is_str
                        THEN IF kind = "text" /\ chunk.content.str # "" THEN <<chunk.content.str>> ELSE <<>>
                        ELSE Listed[Len(list)]
         IN  Blocks[Len(blocks)] \o summary \o content

\* The parts of that kind of the chunks the attempt has consumed.
UpstreamParts(kind) ==
    LET Upto[k \in 0..Len(received)] ==
            IF k = 0 THEN <<>>
            ELSE Upto[k - 1] \o (IF IsGoogle THEN GooglePartsOf(received[k], kind)
                                 ELSE LangChainPartsOf(received[k], kind))
    IN  Upto[Len(received)]

\* The contents of the deltas of that kind yielded so far.
YieldedContents(kind) ==
    LET Upto[k \in 0..Len(out)] ==
            IF k = 0 THEN <<>>
            ELSE Upto[k - 1] \o (IF out[k].kind = kind THEN <<out[k].body.content>> ELSE <<>>)
    IN  Upto[Len(out)]

\* The adapter has walked every chunk it has consumed: it awaits the next
\* one, or the stream has ended.
ChunksWalked ==
    \/ pc = "streaming"
    \/ pc = "yielded" /\ ~UnderDeadline(frame)
    \/ Succeeded

IsPrefix(s, t) == Len(s) <= Len(t) /\ SubSeq(t, 1, Len(s)) = s

\* C27.  At every moment of a stream the text deltas yielded are, one for one
\* and in order, non-empty assistant-text parts of the chunks consumed, and
\* the thinking deltas non-empty reasoning parts; and once the adapter has
\* walked a chunk, every such part of it has been yielded.
ContentDeltasMatchUpstream ==
    /\ (pc \in {"streaming", "yielded"} \/ Succeeded) =>
          /\ IsPrefix(YieldedContents("text"), UpstreamParts("text"))
          /\ IsPrefix(YieldedContents("thinking"), UpstreamParts("thinking"))
    /\ ChunksWalked =>
          /\ YieldedContents("text") = UpstreamParts("text")
          /\ YieldedContents("thinking") = UpstreamParts("thinking")

\* C28: a read of the signature cache returns None for an execution id never
\* written, the signature last written for the id while that write is at most
\* THOUGHT_SIGNATURE_TTL seconds old, and None once it is older, the entry then
\* being gone from the cache: no read returns an expired signature.
SignatureReadWithinTTL ==
    [][sig_read' # sig_read =>
        LET r == Get(sig_read')
            w == last_written[r.id]
        IN  /\ r.at = clock
            /\ IsNone(w) => r.value = None
            /\ (~IsNone(w) /\ clock - Get(w).ts <= THOUGHT_SIGNATURE_TTL)
                  => r.value = Get(w).sig
            /\ (~IsNone(w) /\ clock - Get(w).ts > THOUGHT_SIGNATURE_TTL)
                  => /\ r.value = None
                     /\ r.id \notin DOMAIN _thought_signatures']_vars

\* A read found the signature of its id expired although a signature had been
\* written for it, while the other id's entry, written later, is still cached.
SignatureReadWithinTTLWitness ==
    /\ ~IsNone(sig_read)
    /\ LET r == Get(sig_read)
           w == last_written[r.id]
       IN  /\ ~IsNone(w)
           /\ ~IsNone(Get(w).sig)
           /\ r.at = clock
           /\ clock - Get(w).ts > THOUGHT_SIGNATURE_TTL
           /\ r.value = None
           /\ r.id \notin DOMAIN _thought_signatures
           /\ DOMAIN _thought_signatures # {}

\* C29: a backoff sleep is always followed by a new upstream attempt: when
\* generate() has returned after k >= 1 attempts it has slept k - 1 times, so
\* no sleep comes between the last attempt and the max_retries error.
SleepsOnlyToRetry ==
    (pc = "done" /\ upstream_calls >= 1) => Len(sleeps) = upstream_calls - 1

\* The outcomes of the attempts that were followed by a backoff sleep.
SleptAfter == SelectSeq(attempts_log, LAMBDA e : e.outcome \in Retryables /\ e.yielded = 0)

\* 2^a for the attempt indexes of the retry loop.
BackoffSequence == <<1, 2, 4>>

\* C30: the delay slept after the failed attempt with zero-based index a is
\* RETRY_BACKOFF_BASE ** a, that is 1, 2, 4 seconds for a = 0, 1, 2, whether
\* the attempt ended with an empty response or with a timeout.
BackoffDelays ==
    /\ Len(sleeps) = Len(SleptAfter)
    /\ Len(sleeps) <= Len(BackoffSequence)
    /\ \A a \in 0..(Len(sleeps) - 1) : sleeps[a + 1] = BackoffSequence[a + 1]

\* The three delays were slept after a timeout, an empty response and a
\* timeout.
BackoffDelaysWitness ==
    /\ sleeps = <<1, 2, 4>>
    /\ Len(SleptAfter) = 3
    /\ SleptAfter[1].outcome = "timeout"
    /\ SleptAfter[2].outcome = "empty"
    /\ SleptAfter[3].outcome = "timeout"

\* The fragments of index i, in arrival order.
FragmentsOf(i) == SelectSeq(FragmentsReceived, LAMBDA f : f.index = i)

\* The names and the ids the fragments of index i carry, in arrival order.
NamesCarried(i) ==
    LET step(acc, f) == IF f.name # <<>> THEN Append(acc, f.name) ELSE acc
    IN  FoldLeft(step, <<>>, FragmentsOf(i))

IdsCarried(i) ==
    LET step(acc, f) == IF f.id # "" THEN Append(acc, f.id) ELSE acc
    IN  FoldLeft(step, <<>>, FragmentsOf(i))

\* C31: the assembled tool call of an index has the name and the id of the
\* first fragment of the index that carries them; a later fragment with another
\* name or id does not change them.
FirstFragmentNamesToolCall ==
    (~IsGoogle /\ Succeeded) =>
        \A i \in FragmentIndices :
            /\ NamesCarried(i) # <<>> =>
                  ToolCalls(out)[Rank(i)].body.name = tool_name_from_api(Head(NamesCarried(i)))
            /\ IdsCarried(i) # <<>> =>
                  ToolCalls(out)[Rank(i)].body.call_id = Head(IdsCarried(i))

\* The kinds of delta an adapter yields.
AdapterKinds == ContentKinds \cup {"usage", "grounding", "final"}

\* The deadline of the attempt expires in the step: while the adapter awaits
\* the upstream (the attempt is logged as timed out), or while generate() is
\* suspended at a yield of the adapter's loop.
DeadlineExpiry ==
    \/ AttemptEnds /\ Last(attempts_log').outcome = "timeout"
    \/ pc = "yielded" /\ pc' = "cancelled"

\* C32: when the deadline expires during an attempt, the adapter raises the
\* retryable condition, which generate() handles, and yields nothing: the
\* only delta the step may add to the outbound stream is the
\* partial_stream_error of generate(), and that only when deltas had been
\* forwarded; the pending tool-call fragments and the buffered usage and
\* grounding are not delivered.
NothingOnDeadline ==
    [][DeadlineExpiry
        => /\ AttemptEnds /\ Last(attempts_log').outcome = "timeout"
           /\ pc' \in {"sleeping", "failed"}
           /\ Len(out') >= Len(out)
           /\ SubSeq(out', 1, Len(out)) = out
           /\ LET added == SubSeq(out', Len(out) + 1, Len(out'))
              IN  /\ Indices(added, AdapterKinds) = {}
                  /\ added = IF chunks_yielded > 0
                             THEN <<ErrorDelta("partial_stream_error", FALSE)>>
                             ELSE <<>>
           /\ Last(attempts_log').yielded = chunks_yielded]_vars

\* The usage metadata the running attempt has seen, in arrival order, as the
\* usage delta each of them alone would give.
UsagesSeen ==
    LET google(acc, chunk) ==
            IF IsNone(chunk.usage_metadata) THEN acc
            ELSE Append(acc, UsageFromMetadata(Get(chunk.usage_metadata)))
        langchain(acc, chunk) ==
            IF ~chunk.is_ai \/ IsNone(chunk.usage_metadata) THEN acc
            ELSE LET um == Get(chunk.usage_metadata)
                 IN  Append(acc, UsageInfo(um.input_tokens, um.output_tokens, um.total_tokens, 0))
    IN  IF IsGoogle THEN FoldLeft(google, <<>>, received)
        ELSE FoldLeft(langchain, <<>>, received)

UsageDeltas == SelectSeq(out, LAMBDA d : d.kind = "usage")

\* C33 as stated, for every adapter: a successful stream carries at most one
\* usage delta, and its counts are those of the last usage metadata seen.
UsageIsLastSeenEveryAdapter ==
    Succeeded =>
        /\ Len(UsageDeltas) <= 1
        /\ UsageDeltas # <<>> => (UsagesSeen # <<>> /\ UsageDeltas[1] = Last(UsagesSeen))

\* C33, amended.  The Google adapter keeps the last usage metadata seen: a
\* successful stream carries one usage delta when a chunk (with or without
\* content) carried usage metadata and none otherwise, and its counts are
\* those of the last metadata seen, a missing count being 0.
UsageIsLastSeen ==
    (IsGoogle /\ Succeeded) =>
        /\ Len(UsageDeltas) = (IF UsagesSeen = <<>> THEN 0 ELSE 1)
        /\ UsageDeltas # <<>> => UsageDeltas[1] = Last(UsagesSeen)

\* Two chunks carried usage, the second without a candidate's content and
\* with other counts; the delta has the counts of the second.
UsageIsLastSeenWitness ==
    /\ IsGoogle /\ Succeeded
    /\ Len(UsagesSeen) = 2
    /\ UsagesSeen[1] = UsageInfo(1, 0, 3, 0)
    /\ UsageDeltas = <<UsageInfo(7, 8, 15, 0)>>

\* The sum of a count over the usage metadata seen.
RECURSIVE SumOf(_, _)
SumOf(usages, field) ==
    IF usages = <<>> THEN 0 ELSE Head(usages).body[field] + SumOf(Tail(usages), field)

\* C34: the LangChain adapter accumulates usage metadata: the usage delta of a
\* successful stream is single and carries, for input, output and total
\* tokens, the sums of the counts over all chunks of the attempt.
UsageAccumulated ==
    (~IsGoogle /\ Succeeded) =>
        /\ Len(UsageDeltas) <= 1
        /\ UsageDeltas # <<>> =>
              UsageDeltas[1] = UsageInfo(SumOf(UsagesSeen, "input_tokens"),
                                         SumOf(UsagesSeen, "output_tokens"),
                                         SumOf(UsagesSeen, "total_tokens"), 0)

\* Chunks with 100/0/100 and 0/50/50 gave 100/50/150.
UsageAccumulatedWitness ==
    /\ ~IsGoogle /\ Succeeded
    /\ Len(UsagesSeen) = 2
    /\ UsagesSeen[1] = UsageInfo(100, 0, 100, 0)
    /\ UsageDeltas = <<UsageInfo(100, 50, 150, 0)>>

\* The client-cache key of a concurrent call.
TaskKey(t) ==
    LET config == tasks[t].run.request.llm_config
    IN  IF IsGoogle THEN config.api_key_env
        ELSE <<config.provider, config.model, config.api_key_env>>

\* C35: whatever the interleaving of concurrent calls that look up the same
\* client-cache key, the calls are handed the same instance, which is the
\* cache's one entry for the key.
OneInstancePerKey ==
    \A t1 \in TaskIds : \A t2 \in TaskIds :
        ~IsNone(tasks[t1].run.client) =>
            /\ TaskKey(t1) \in DOMAIN client_cache
            /\ client_cache[TaskKey(t1)] = Get(tasks[t1].run.client)
            /\ (~IsNone(tasks[t2].run.client) /\ TaskKey(t1) = TaskKey(t2))
                   => tasks[t1].run.client = tasks[t2].run.client

\* Two calls with the same key have both looked the client up before either
\* has begun to stream.
OneInstancePerKeyWitness ==
    /\ TaskKey(1) = TaskKey(2)
    /\ tasks[1].run.pc = "retry_loop" /\ tasks[2].run.pc = "retry_loop"
    /\ ~IsNone(tasks[1].run.client)
    /\ tasks[1].run.client = tasks[2].run.client
    /\ DOMAIN client_cache = {TaskKey(1)}

FunctionCallsReceived ==
    LET part(acc, p) == IF ~p.thought /\ ~IsNone(p.function_call)
                        THEN Append(acc, Get(p.function_call)) ELSE acc
        chunk(acc, c) == IF c.candidates = <<>> \/ IsNone(c.candidates[1].content) THEN acc
                         ELSE FoldLeft(part, acc, Get(c.candidates[1].content).parts)
    IN  FoldLeft(chunk, <<>>, received)

Range(f) == {f[x] : x \in DOMAIN f}

\* C36: every tool_call delta carries the decoded name the upstream delivered
\* for the call and the call id the upstream delivered for it; the adapter
\* generates a call id only when the upstream delivered none.
ToolCallsCarryUpstreamIds ==
    Succeeded =>
        IF IsGoogle
        THEN /\ Len(ToolCalls(out)) = Len(FunctionCallsReceived)
             /\ \A k \in 1..Len(FunctionCallsReceived) :
                   LET fc == FunctionCallsReceived[k]
                   IN  /\ ToolCalls(out)[k].body.name = tool_name_from_api(Get(fc.name))
                       /\ ToolCalls(out)[k].body.call_id =
                              (IF IsNone(fc.id) THEN GeneratedCallId ELSE Get(fc.id))
        ELSE \A i \in FragmentIndices :
                LET delivered == ToolCalls(out)[Rank(i)].body
                IN  /\ NamesCarried(i) # <<>> =>
                          \E n \in Range(NamesCarried(i)) : delivered.name = tool_name_from_api(n)
                    /\ IF IdsCarried(i) = <<>> THEN delivered.call_id = GeneratedCallId
                       ELSE delivered.call_id \in Range(IdsCarried(i))

\* LangChainProvider.generate fails to obtain the model.
ModelNotObtained ==
    /\ ~IsGoogle /\ pc = "start" /\ pc' = "failed"
    /\ get_or_create_model(client_cache, request.llm_config, request.tools, env_set).raised

\* The failure is caused by the unset credential variable: the model is not
\* cached, its provider is supported and needs the variable, which is unset.
CausedByUnsetCredential ==
    /\ CacheKey \notin DOMAIN client_cache
    /\ request.llm_config.provider \in ProviderType \ {VERTEXAI}
    /\ ~env_set

\* C37: when LangChainProvider.generate fails to obtain the model, its single
\* final error delta has the code credentials exactly when the cause is an
\* unset credential variable and invalid_request for every other cause,
\* whatever provider name and tool names the request carries.
ModelErrorClassified ==
    [][ModelNotObtained =>
         out' = <<ErrorDelta(IF CausedByUnsetCredential THEN "credentials" ELSE "invalid_request",
                             FALSE)>>]_vars

\* C39: the two implementations of the codec agree on every name and every
\* string a request brings: the encoders accept the same names, reject the
\* same names and return the same API name, and the decoders return the same
\* canonical name.
CodecsAgree ==
    \A name \in RequestToolNames :
        /\ tool_name_to_native(name).raised = tool_name_to_api(name).raised
        /\ tool_name_to_native(name) = tool_name_to_api(name)
        /\ tool_name_from_native(name) = tool_name_from_api(name)
        /\ tool_name_from_native(ReplaceDots(name)) = tool_name_from_api(ReplaceDots(name))

\* The Google adapter has declared a.a as a__a and decoded the upstream's
\* call of it; a name with "__" in a segment is rejected.
CodecsAgreeWitness ==
    /\ IsGoogle /\ Succeeded
    /\ request.tools = <<<<"a", ".", "a">>>>
    /\ DeclaredApiNames = <<<<"a", "_", "_", "a">>>>
    /\ tool_name_to_api(<<"a", ".", "a">>) = Ok(<<"a", "_", "_", "a">>)
    /\ tool_name_to_api(<<"a", "_", "_">>).raised
    /\ ToolCalls(out)[1].body.name = <<"a", ".", "a">>

\* What an adapter invoked afresh yields for the chunks of the running
\* attempt followed by the end of the stream.
AttemptAlone ==
    LET step(acc, chunk) ==
            LET r == IF IsGoogle THEN GoogleChunkStep(acc.loc, chunk)
                     ELSE LangChainChunkStep(acc.loc, chunk)
            IN  Drain(provider, r.loc, r.frame, acc.deltas)
        run == FoldLeft(step, [loc |-> FreshLocals, deltas |-> <<>>, ends |-> ""], received)
    IN  Drain(provider, run.loc,
              EpilogueFrame(IF IsGoogle THEN GoogleEndOfStream(run.loc)
                            ELSE LangChainEndOfStream(run.loc)),
              run.deltas).deltas

\* C40: the deltas of a request that succeeds derive from the chunks of the
\* successful attempt alone: what earlier failed attempts had buffered (tool-
\* call fragments, usage, grounding) neither appears in nor adds to the stream.
AttemptsIndependent == Succeeded => out = AttemptAlone

\* The second attempt succeeded after the first had timed out; the stream is
\* the text and the final marker, with no tool call and no usage.
AttemptsIndependentWitness ==
    /\ Succeeded /\ upstream_calls = 2
    /\ attempts_log[1].outcome = "timeout"
    /\ out = <<TextDelta("ok"), FinalChunk>>

====
